---------------------------- MODULE Spec2Model ----------------------------
(* A model of jsonschema_pydantic_converter: create_type_adapter (the      *)
(* general validator compiler), transform (the deprecated object-model     *)
(* compiler), the allOf merge helpers of _schema_utils and the allOf step  *)
(* of TransformConverter.convert.                                          *)
(*                                                                         *)
(* A schema fragment is a function from keyword strings to values (a       *)
(* Python dict); a list is a sequence.  A Python value handed to a         *)
(* validator is a record with one field, named after its kind:             *)
(*   [str |-> s]   [int |-> n]   [bool |-> b]   [null |-> 0]                *)
(*   [float |-> twice the number]  (so 3.5 is 7 and 1.0 is 2)              *)
(*   [arr |-> a sequence]   [obj |-> a function on strings]                *)
(*   [model |-> [title, fields, extra]]  (an instance of a generated model) *)
(*   [member |-> the value of an Enum member]   [tuple |-> a sequence]      *)
(* Reference strings and definition names are sequences of one-character   *)
(* strings, because the code splits, joins and capitalizes them.           *)
EXTENDS Integers, Sequences, FiniteSets, TLC

VARIABLES
    api,                  \* which entry point was called
    schema,               \* the caller's schema document
    pc,                   \* position inside the entry point / after it
    all_definitions,      \* collect_definitions(schema): sequence of [name, def]
    idx,                  \* next definition of all_definitions to compile
    namespace,            \* namespace: key -> compiled type
    dynamic_type_counter, \* DynamicType_<n>
    combined_model_counter, \* CombinedModel_<n> (transform only)
    model,                \* the compiled root type
    error,                \* the exception the entry point raised, or NoError
    merged,               \* result of the allOf merge step (merge entry points)
    val,                  \* argument of the last validate_python call
    outcome,              \* its result: [r, out]
    js,                   \* result of the last json_schema() call
    calls,                \* calls made so far on the returned adapter / model
    failed_before,        \* some earlier validate_python call did not succeed
    resolved,             \* what resolve_ref_path returned
    earlier               \* the namespace keys of each earlier top-level call

vars == <<api, schema, pc, all_definitions, idx, namespace, dynamic_type_counter,
          combined_model_counter, model, error, merged, val, outcome, js, calls,
          failed_before, resolved, earlier>>

-----------------------------------------------------------------------------
(* Generic helpers *)

Has(d, key) == key \in DOMAIN d

Get(d, key, dflt) == IF key \in DOMAIN d THEN d[key] ELSE dflt

EmptyDict == <<>>

Range(s) == {s[i] : i \in DOMAIN s}

SeqContains(s, x) == \E i \in DOMAIN s : s[i] = x

Without(d, key) == [x \in (DOMAIN d) \ {key} |-> d[x]]

With(d, key, v) == [x \in (DOMAIN d) \cup {key} |-> IF x = key THEN v ELSE d[x]]

RECURSIVE SeqOfSet(_, _)
\* the elements of set S in the order of sequence ord
SeqOfSet(S, ord) ==
    IF ord = <<>> THEN <<>>
    ELSE IF Head(ord) \in S THEN <<Head(ord)>> \o SeqOfSet(S, Tail(ord))
    ELSE SeqOfSet(S, Tail(ord))

-----------------------------------------------------------------------------
(* Python strings as character sequences *)

LowerChars == <<"a","b","c","d","e","f","g","h","i","j","k","l","m",
                "n","o","p","q","r","s","t","u","v","w","x","y","z">>
UpperChars == <<"A","B","C","D","E","F","G","H","I","J","K","L","M",
                "N","O","P","Q","R","S","T","U","V","W","X","Y","Z">>

IndexOf(c, s) == IF \E i \in DOMAIN s : s[i] = c
                 THEN CHOOSE i \in DOMAIN s : s[i] = c ELSE 0

Upper(c) == IF IndexOf(c, LowerChars) > 0 THEN UpperChars[IndexOf(c, LowerChars)] ELSE c
Lower(c) == IF IndexOf(c, UpperChars) > 0 THEN LowerChars[IndexOf(c, UpperChars)] ELSE c

\* str.capitalize(): first character upper-cased, all the others lower-cased
capitalize(s) ==
    [i \in DOMAIN s |-> IF i = 1 THEN Upper(s[i]) ELSE Lower(s[i])]

RECURSIVE split(_, _)
\* str.split(sep) for a one-character separator
split(s, sep) ==
    IF ~SeqContains(s, sep) THEN <<s>>
    ELSE LET i == CHOOSE j \in DOMAIN s : s[j] = sep /\ \A m \in 1..(j-1) : s[m] # sep
         IN <<SubSeq(s, 1, i - 1)>> \o split(SubSeq(s, i + 1, Len(s)), sep)

RECURSIVE join(_, _)
\* sep.join(parts)
join(parts, sep) ==
    IF parts = <<>> THEN <<>>
    ELSE IF Len(parts) = 1 THEN parts[1]
    ELSE parts[1] \o <<sep>> \o join(Tail(parts), sep)

\* str.replace(a, b) for one-character a and b
replace(s, a, b) == [i \in DOMAIN s |-> IF s[i] = a THEN b ELSE s[i]]

startswith(s, p) == Len(s) >= Len(p) /\ SubSeq(s, 1, Len(p)) = p

DefsWord == <<"$","d","e","f","s">>
DefinitionsWord == <<"d","e","f","i","n","i","t","i","o","n","s">>

RECURSIVE FilterParts(_)
\* [p for p in parts if p not in ("$defs", "definitions")]
FilterParts(parts) ==
    IF parts = <<>> THEN <<>>
    ELSE IF Head(parts) \in {DefsWord, DefinitionsWord} THEN FilterParts(Tail(parts))
    ELSE <<Head(parts)>> \o FilterParts(Tail(parts))

\* the $ref branch of create_type_adapter's convert_type
cta_ref_key(ref) ==
    IF startswith(ref, <<"#", "/">>)
    THEN capitalize(join(FilterParts(split(SubSeq(ref, 3, Len(ref)), "/")), "_"))
    ELSE LET parts == split(ref, "/") IN capitalize(parts[Len(parts)])

\* the $ref branch of transform's convert_type
transform_ref_key(ref) ==
    IF startswith(ref, <<"#", "/">>)
    THEN capitalize(join(FilterParts(split(SubSeq(ref, 3, Len(ref)), "/")), "_"))
    ELSE LET parts == split(ref, "/") IN capitalize(parts[Len(parts)])

\* a variant that filters "$defs" alone
resolve_ref_path_keeps_definitions(ref) ==
    IF startswith(ref, <<"#", "/">>)
    THEN LET parts == split(SubSeq(ref, 3, Len(ref)), "/")
             name_parts == SelectSeq(parts, LAMBDA p : p # DefsWord)
         IN capitalize(join(name_parts, "_"))
    ELSE LET parts == split(ref, "/") IN capitalize(parts[Len(parts)])

\* resolve_ref_path of _schema_utils
resolve_ref_path(ref) ==
    IF startswith(ref, <<"#", "/">>)
    THEN LET ref_path == SubSeq(ref, 3, Len(ref))
             parts == split(ref_path, "/")
             name_parts == FilterParts(parts)
         IN capitalize(join(name_parts, "_"))
    ELSE LET parts == split(ref, "/") IN capitalize(parts[Len(parts)])

\* namespace[name.replace("/", "_").capitalize()]
namespace_key(name) == capitalize(replace(name, "/", "_"))

-----------------------------------------------------------------------------
(* Python values *)

NoneV == [null |-> 0]
StrV(x) == [str |-> x]
IntV(n) == [int |-> n]
FloatV(twice) == [float |-> twice]
BoolV(b) == [bool |-> b]
ArrV(s) == [arr |-> s]
ObjV(d) == [obj |-> d]
TupleV(s) == [tuple |-> s]
MemberV(m) == [member |-> m]
ModelV(title, fields, extra) == [model |-> [title |-> title, fields |-> fields, extra |-> extra]]

\* the kind of a value and what it holds
K(x) == CHOOSE kind \in DOMAIN x : TRUE
V(x) == x[K(x)]

IsNumeric(x) == K(x) \in {"int", "float", "bool"}

\* twice the numeric value of an int, float or bool (bool is a subclass of int)
Twice(x) == IF K(x) = "int" THEN 2 * V(x)
            ELSE IF K(x) = "bool" THEN (IF V(x) THEN 2 ELSE 0)
            ELSE V(x)

IsIntegral(x) == IsNumeric(x) /\ Twice(x) % 2 = 0

RECURSIVE PyEq(_, _)
\* Python's ==: numbers compare by numeric value across int, float and bool;
\* lists and dicts compare element-wise; everything else within its own kind
PyEq(a, b) ==
    IF IsNumeric(a) /\ IsNumeric(b) THEN Twice(a) = Twice(b)
    ELSE IF K(a) # K(b) THEN FALSE
    ELSE IF K(a) = "arr"
         THEN Len(V(a)) = Len(V(b)) /\ \A i \in DOMAIN V(a) : PyEq(V(a)[i], V(b)[i])
    ELSE IF K(a) = "obj"
         THEN DOMAIN V(a) = DOMAIN V(b) /\ \A f \in DOMAIN V(a) : PyEq(V(a)[f], V(b)[f])
    ELSE V(a) = V(b)

\* bool(x) of a schema keyword value that is a string
TruthyStr(x) == x # ""

-----------------------------------------------------------------------------
(* Compiled types (what convert_type returns) *)

AnyT == [t |-> "any"]
StrT == [t |-> "str"]
IntT == [t |-> "int"]
FloatT == [t |-> "float"]
BoolT == [t |-> "bool"]
NoneT == [t |-> "none"]
DictT == [t |-> "dict"]                       \* Dict[str, Any]
ListT(item) == [t |-> "list", item |-> item]  \* List[item]
TupleT(types) == [t |-> "tuple", types |-> types]
RefT(key) == [t |-> "ref", name |-> key]      \* a string annotation: forward reference
NeverT == [t |-> "never"]                     \* Annotated[Any, BeforeValidator(reject_all)]
LiteralT(values) == [t |-> "literal", values |-> values]
EnumT(base, values, title) == [t |-> "enum", base |-> base, values |-> values, title |-> title]
AnnotatedT(base, constraints) == [t |-> "annotated", base |-> base, constraints |-> constraints]

NoError == [t |-> "ok"]
ErrT(kind, msg) == [t |-> "error", kind |-> kind, msg |-> msg]
IsErr(ty) == ty.t = "error"

Hashable(ty) == ty.t \in {"any", "str", "int", "float", "bool", "none", "dict", "ref"}

RECURSIVE Dedupe(_)
\* typing.Union drops a member equal to an earlier one (types made per call,
\* such as models, enums and Annotated validators, are never equal)
Dedupe(types) ==
    IF types = <<>> THEN <<>>
    ELSE LET init == Dedupe(SubSeq(types, 1, Len(types) - 1))
             last == types[Len(types)]
         IN IF Hashable(last) /\ \E i \in DOMAIN init : Hashable(init[i]) /\ init[i] = last
            THEN init ELSE Append(init, last)

RECURSIVE Flatten(_)
\* typing.Union flattens nested unions
Flatten(types) ==
    IF types = <<>> THEN <<>>
    ELSE (IF Head(types).t = "union" THEN Head(types).types ELSE <<Head(types)>>)
         \o Flatten(Tail(types))

\* typing.Union[types]
UnionT(types) ==
    LET flat == Dedupe(Flatten(types)) IN
    IF flat = <<>> THEN ErrT("TypeError", "Cannot take a Union of no types")
    ELSE IF Len(flat) = 1 THEN flat[1]
    ELSE [t |-> "union", types |-> flat]

\* typing.Optional[ty]
OptionalT(ty) == UnionT(<<ty, NoneT>>)

\* type_mapping of convert_type; a type name outside the table has no entry
type_mapping == [string |-> StrT, number |-> FloatT, integer |-> IntT,
                 boolean |-> BoolT, array |-> [t |-> "barelist"],
                 object |-> DictT, null |-> NoneT]

\* iteration order of a properties dict: the callers' documents are taken to
\* list their properties in this order
PropOrder == <<"a", "b", "c", "x", "name", "next", "p">>

DynamicTypeTitle(n) == "DynamicType_" \o ToString(n)
CombinedModelTitle(n) == "CombinedModel_" \o ToString(n)

-----------------------------------------------------------------------------
(* create_type_adapter: convert_type and its helpers.  Every operator      *)
(* returns [ty, ctr]: the compiled type (or the exception raised, an ErrT)  *)
(* and dynamic_type_counter after the call.                                 *)

RECURSIVE cta_convert_type(_, _), cta_convert_all(_, _), cta_convert_fields(_, _, _, _)

\* [convert_type(sub) for sub in subs]: [tys, ctr, err]
cta_convert_all(subs, ctr) ==
    IF subs = <<>> THEN [tys |-> <<>>, ctr |-> ctr, err |-> NoError]
    ELSE LET h == cta_convert_type(Head(subs), ctr) IN
         IF IsErr(h.ty) THEN [tys |-> <<>>, ctr |-> h.ctr, err |-> h.ty]
         ELSE LET r == cta_convert_all(Tail(subs), h.ctr) IN
              [tys |-> <<h.ty>> \o r.tys, ctr |-> r.ctr, err |-> r.err]

\* a variant that has no json_schema_extra to fall back from: has_refs always true
has_refs_always(sub_schemas) == TRUE

\* has_refs = any("$ref" in sub for sub in sub_schemas)
has_refs(sub_schemas) == \E i \in DOMAIN sub_schemas : Has(sub_schemas[i], "$ref")

\* a variant that refuses branches of different declared types at compile time
create_intersection_type_strict(sub_schemas, ctr) ==
    LET r == cta_convert_all(sub_schemas, ctr)
        typed == {i \in DOMAIN sub_schemas : Has(sub_schemas[i], "type")}
    IN IF r.err # NoError THEN [ty |-> r.err, ctr |-> r.ctr]
       ELSE IF \E i, j \in typed : sub_schemas[i].type # sub_schemas[j].type
            THEN [ty |-> ErrT("ValueError", "Incompatible types in allOf"), ctr |-> r.ctr]
       ELSE [ty |-> [t |-> "intersection", converted_types |-> r.tys,
                     json_extra |-> ~has_refs(sub_schemas),
                     sub_schemas |-> sub_schemas],
             ctr |-> r.ctr]

\* _create_intersection_type: Annotated[Any, BeforeValidator(validate_all), ...];
\* json_extra tells whether Field(json_schema_extra=...) is attached
create_intersection_type(sub_schemas, ctr) ==
    LET r == cta_convert_all(sub_schemas, ctr) IN
    IF r.err # NoError THEN [ty |-> r.err, ctr |-> r.ctr]
    ELSE [ty |-> [t |-> "intersection", converted_types |-> r.tys,
                  json_extra |-> ~has_refs(sub_schemas),
                  sub_schemas |-> sub_schemas],
          ctr |-> r.ctr]

\* _create_not_type: Annotated[Any, BeforeValidator(validate_not), Field(...)]
create_not_type(not_schema, ctr) ==
    LET c == cta_convert_type(not_schema, ctr) IN
    IF IsErr(c.ty) THEN c
    ELSE [ty |-> [t |-> "not", converted_type |-> c.ty, not_schema |-> not_schema],
          ctr |-> c.ctr]

\* _create_const_type: Annotated[Any, BeforeValidator(validate_const), Field(...)]
create_const_type(const_value) == [t |-> "const", const_value |-> const_value]

\* the base of the Enum built for an `enum` without `type`
enum_base(first_val) ==
    IF K(first_val) = "str" THEN StrT
    ELSE IF K(first_val) \in {"int", "bool"} THEN IntT
    ELSE IF K(first_val) = "float" THEN FloatT
    ELSE AnyT

\* a variant of the rule that takes the base from the first value alone
cta_enum_no_type_first_value(prop) ==
    LET enum_values == prop.enum IN
    IF enum_values = <<>> THEN NeverT
    ELSE IF K(enum_values[1]) \in {"str", "int", "float"}
         THEN EnumT(enum_base(enum_values[1]), enum_values,
                    Get(prop, "title", "DynamicEnum"))
         ELSE LiteralT(enum_values)

\* convert_type, the `enum` without `type` rule
cta_enum_no_type(prop) ==
    LET enum_values == prop.enum
        use_literal ==
            \/ enum_values = <<>>
            \/ \E i \in DOMAIN enum_values : K(enum_values[i]) = "bool"
            \/ Cardinality({K(enum_values[i]) : i \in DOMAIN enum_values}) > 1
    IN IF use_literal
       THEN (IF enum_values # <<>> THEN LiteralT(enum_values) ELSE NeverT)
       ELSE IF K(enum_values[1]) \in {"str", "int", "float"}
            THEN EnumT(enum_base(enum_values[1]), enum_values,
                       Get(prop, "title", "DynamicEnum"))
            ELSE LiteralT(enum_values)

\* the constraints dict built from the numeric keywords
numeric_constraints(prop) ==
    [c \in {c \in {"ge", "le", "gt", "lt", "multiple_of"} :
              Has(prop, CASE c = "ge" -> "minimum" [] c = "le" -> "maximum"
                          [] c = "gt" -> "exclusiveMinimum"
                          [] c = "lt" -> "exclusiveMaximum"
                          [] OTHER -> "multipleOf")}
       |-> prop[CASE c = "ge" -> "minimum" [] c = "le" -> "maximum"
                  [] c = "gt" -> "exclusiveMinimum" [] c = "lt" -> "exclusiveMaximum"
                  [] OTHER -> "multipleOf"]]

\* the constraints dict built from minLength, maxLength and pattern
string_constraints(prop) ==
    [c \in {c \in {"min_length", "max_length", "pattern"} :
              Has(prop, CASE c = "min_length" -> "minLength"
                          [] c = "max_length" -> "maxLength" [] OTHER -> "pattern")}
       |-> prop[CASE c = "min_length" -> "minLength"
                  [] c = "max_length" -> "maxLength" [] OTHER -> "pattern"]]

\* the constraints dict built from minItems and maxItems
array_constraints(prop) ==
    [c \in {c \in {"min_length", "max_length"} :
              Has(prop, IF c = "min_length" THEN "minItems" ELSE "maxItems")}
       |-> prop[IF c = "min_length" THEN "minItems" ELSE "maxItems"]]

\* Annotated[base, Field(**constraints)] if constraints else base
Constrained(base, constraints) ==
    IF DOMAIN constraints # {} THEN AnnotatedT(base, constraints) ELSE base

\* a variant that hands the declared title of a property to nobody
field_kwargs_untitled(name, property, required_fields) ==
    LET kw0 == IF Has(property, "default") THEN [default |-> property.default]
               ELSE IF ~SeqContains(required_fields, name) THEN [default |-> NoneV]
               ELSE EmptyDict
    IN IF Has(property, "description")
       THEN With(kw0, "description", property.description) ELSE kw0

\* a variant in which `required` is looked at before `default`
field_kwargs_required_first(name, property, required_fields) ==
    LET kw0 == IF SeqContains(required_fields, name) THEN EmptyDict
               ELSE IF Has(property, "default") THEN [default |-> property.default]
               ELSE [default |-> NoneV]
        kw1 == IF Has(property, "description")
               THEN With(kw0, "description", property.description) ELSE kw0
    IN IF Has(property, "title") THEN With(kw1, "title", property.title) ELSE kw1

\* Field(**field_kwargs) of one property
field_kwargs(name, property, required_fields) ==
    LET kw0 == IF Has(property, "default") THEN [default |-> property.default]
               ELSE IF ~SeqContains(required_fields, name) THEN [default |-> NoneV]
               ELSE EmptyDict
        kw1 == IF Has(property, "description")
               THEN With(kw0, "description", property.description) ELSE kw0
    IN IF Has(property, "title") THEN With(kw1, "title", property.title) ELSE kw1

\* the loop over prop["properties"].items(): [fields, ctr, err]
cta_convert_fields(props, names, required_fields, ctr) ==
    IF names = <<>> THEN [fields |-> EmptyDict, ctr |-> ctr, err |-> NoError]
    ELSE LET name == Head(names)
             property == props[name]
             c == cta_convert_type(property, ctr)
         IN IF IsErr(c.ty) THEN [fields |-> EmptyDict, ctr |-> c.ctr, err |-> c.ty]
            ELSE LET pydantic_type ==
                         IF ~Has(property, "default") /\ ~SeqContains(required_fields, name)
                         THEN OptionalT(c.ty) ELSE c.ty
                     rest == cta_convert_fields(props, Tail(names), required_fields, c.ctr)
                 IN [fields |-> With(rest.fields, name,
                                     [ty |-> pydantic_type,
                                      kw |-> field_kwargs(name, property, required_fields)]),
                     ctr |-> rest.ctr, err |-> rest.err]

\* a list-valued `items` is written [tuple_items |-> <<...>>], so that it can be
\* told from a dict-valued one (isinstance(items_value, list))
IsListItems(items_value) == Has(items_value, "tuple_items")

ModelT(title, fields, prop, extra) ==
    [t |-> "model", title |-> title, fields |-> fields,
     doc |-> IF Has(prop, "description") THEN <<prop.description>> ELSE <<>>,
     extra |-> extra]

\* convert_type, type == "array"
cta_convert_array(prop, ctr) ==
    LET items_value == Get(prop, "items", EmptyDict)
        prefix_items == Get(prop, "prefixItems", <<>>)
    IN IF IsListItems(items_value) \/ prefix_items # <<>>
       THEN LET tuple_schemas == IF prefix_items # <<>> THEN prefix_items
                                 ELSE items_value.tuple_items
                r == cta_convert_all(tuple_schemas, ctr)
            IN IF r.err # NoError THEN [ty |-> r.err, ctr |-> r.ctr]
               ELSE [ty |-> TupleT(r.tys), ctr |-> r.ctr]
       ELSE LET c == cta_convert_type(items_value, ctr) IN
            IF IsErr(c.ty) THEN c
            ELSE [ty |-> Constrained(ListT(c.ty), array_constraints(prop)), ctr |-> c.ctr]

\* a variant that advances the counter for a titled fragment as well
cta_convert_object_counting_titled(prop, ctr) ==
    IF ~Has(prop, "properties") THEN [ty |-> DictT, ctr |-> ctr]
    ELSE LET titled == Has(prop, "title") /\ TruthyStr(prop.title)
             title == IF titled THEN prop.title ELSE DynamicTypeTitle(ctr)
             r == cta_convert_fields(prop.properties,
                                     SeqOfSet(DOMAIN prop.properties, PropOrder),
                                     Get(prop, "required", <<>>), ctr + 1)
         IN IF r.err # NoError THEN [ty |-> r.err, ctr |-> r.ctr]
            ELSE [ty |-> ModelT(title, r.fields, prop, "ignore"), ctr |-> r.ctr]

\* convert_type, type == "object"
cta_convert_object(prop, ctr) ==
    IF ~Has(prop, "properties") THEN [ty |-> DictT, ctr |-> ctr]
    ELSE LET titled == Has(prop, "title") /\ TruthyStr(prop.title)
             title == IF titled THEN prop.title ELSE DynamicTypeTitle(ctr)
             ctr1 == IF titled THEN ctr ELSE ctr + 1
             r == cta_convert_fields(prop.properties,
                                     SeqOfSet(DOMAIN prop.properties, PropOrder),
                                     Get(prop, "required", <<>>), ctr1)
         IN IF r.err # NoError THEN [ty |-> r.err, ctr |-> r.ctr]
            ELSE [ty |-> ModelT(title, r.fields, prop, "ignore"), ctr |-> r.ctr]

\* convert_type, the `type` rule
cta_convert_typed(prop, ctr) ==
    LET type_ == prop.type IN
    IF Has(prop, "enum")
    THEN [ty |-> IF type_ \in {"string", "number", "integer"}
                 THEN EnumT(type_mapping[type_], prop.enum, Get(prop, "title", "DynamicEnum"))
                 ELSE ErrT("TypeError", "not an acceptable Enum base"),
          ctr |-> ctr]
    ELSE IF type_ = "array" THEN cta_convert_array(prop, ctr)
    ELSE IF type_ = "string"
         THEN [ty |-> Constrained(StrT, string_constraints(prop)), ctr |-> ctr]
    ELSE IF type_ \in {"integer", "number"}
         THEN [ty |-> Constrained(type_mapping[type_], numeric_constraints(prop)), ctr |-> ctr]
    ELSE IF type_ = "object" THEN cta_convert_object(prop, ctr)
    ELSE [ty |-> Get(type_mapping, type_, AnyT), ctr |-> ctr]

\* a variant that takes a fragment of unknown keywords for Any
cta_convert_untyped_lenient(prop) ==
    IF DOMAIN prop = {} THEN AnyT
    ELSE IF \E key \in {"minimum", "maximum", "exclusiveMinimum", "exclusiveMaximum",
                      "multipleOf"} : Has(prop, key)
         THEN Constrained(FloatT, numeric_constraints(prop))
    ELSE IF \E key \in {"minLength", "maxLength", "pattern"} : Has(prop, key)
         THEN Constrained(StrT, string_constraints(prop))
    ELSE IF \E key \in {"minItems", "maxItems", "uniqueItems"} : Has(prop, key)
         THEN Constrained(ListT(AnyT), array_constraints(prop))
    ELSE IF \E key \in {"minProperties", "maxProperties", "properties", "required",
                      "additionalProperties", "patternProperties", "propertyNames"} :
                Has(prop, key)
         THEN DictT
    ELSE AnyT

\* convert_type, the rules after `type`: empty fragment, bare constraints, unsupported
cta_convert_untyped(prop) ==
    IF DOMAIN prop = {} THEN AnyT
    ELSE IF \E key \in {"minimum", "maximum", "exclusiveMinimum", "exclusiveMaximum",
                      "multipleOf"} : Has(prop, key)
         THEN Constrained(FloatT, numeric_constraints(prop))
    ELSE IF \E key \in {"minLength", "maxLength", "pattern"} : Has(prop, key)
         THEN Constrained(StrT, string_constraints(prop))
    ELSE IF \E key \in {"minItems", "maxItems", "uniqueItems"} : Has(prop, key)
         THEN Constrained(ListT(AnyT), array_constraints(prop))
    ELSE IF \E key \in {"minProperties", "maxProperties", "properties", "required",
                      "additionalProperties", "patternProperties", "propertyNames"} :
                Has(prop, key)
         THEN DictT
    ELSE ErrT("ValueError", "Unsupported schema")

\* a variant that compiles the first branch alone
cta_convert_union_first(subs, ctr) == cta_convert_type(Head(subs), ctr)

\* `anyOf` / `oneOf`: Union[tuple(convert_type(sub) for sub in subs)]
cta_convert_union(subs, ctr) ==
    LET r == cta_convert_all(subs, ctr) IN
    IF r.err # NoError THEN [ty |-> r.err, ctr |-> r.ctr]
    ELSE [ty |-> UnionT(r.tys), ctr |-> r.ctr]

\* a variant in which `type` is looked at before `const`
cta_convert_type_type_first(prop, ctr) ==
    IF Has(prop, "$ref") THEN [ty |-> RefT(cta_ref_key(prop["$ref"])), ctr |-> ctr]
    ELSE IF Has(prop, "allOf") THEN create_intersection_type(prop.allOf, ctr)
    ELSE IF Has(prop, "anyOf") THEN cta_convert_union(prop.anyOf, ctr)
    ELSE IF Has(prop, "oneOf") THEN cta_convert_union(prop.oneOf, ctr)
    ELSE IF Has(prop, "not") THEN create_not_type(prop["not"], ctr)
    ELSE IF Has(prop, "type") THEN cta_convert_typed(prop, ctr)
    ELSE IF Has(prop, "const") THEN [ty |-> create_const_type(prop.const), ctr |-> ctr]
    ELSE IF Has(prop, "enum") THEN [ty |-> cta_enum_no_type(prop), ctr |-> ctr]
    ELSE IF Has(prop, "if") THEN [ty |-> AnyT, ctr |-> ctr]
    ELSE [ty |-> cta_convert_untyped(prop), ctr |-> ctr]

\* convert_type of create_type_adapter
cta_convert_type(prop, ctr) ==
    IF Has(prop, "$ref") THEN [ty |-> RefT(cta_ref_key(prop["$ref"])), ctr |-> ctr]
    ELSE IF Has(prop, "allOf") THEN create_intersection_type(prop.allOf, ctr)
    ELSE IF Has(prop, "anyOf") THEN cta_convert_union(prop.anyOf, ctr)
    ELSE IF Has(prop, "oneOf") THEN cta_convert_union(prop.oneOf, ctr)
    ELSE IF Has(prop, "not") THEN create_not_type(prop["not"], ctr)
    ELSE IF Has(prop, "const") THEN [ty |-> create_const_type(prop.const), ctr |-> ctr]
    ELSE IF Has(prop, "enum") /\ ~Has(prop, "type")
         THEN [ty |-> cta_enum_no_type(prop), ctr |-> ctr]
    ELSE IF Has(prop, "if") /\ ~Has(prop, "type") THEN [ty |-> AnyT, ctr |-> ctr]
    ELSE IF Has(prop, "type") THEN cta_convert_typed(prop, ctr)
    ELSE [ty |-> cta_convert_untyped(prop), ctr |-> ctr]

-----------------------------------------------------------------------------
(* The host library (pydantic), as far as the code relies on it.           *)
(* A validation ends in one of three ways:                                  *)
(*   r = "ok"       the value is accepted, out is what validate returns     *)
(*   r = "invalid"  pydantic.ValidationError                                *)
(*   r = "error"    any other exception (PydanticUndefinedAnnotation, ...)  *)
(* `why` records where an "invalid" comes from: "validation" when a          *)
(* validator rejected the value, "build" when an exception raised while      *)
(* building a validator was turned into a rejection.                         *)

Ok(out) == [r |-> "ok", out |-> out, why |-> "none"]
Invalid(why) == [r |-> "invalid", out |-> NoneV, why |-> why]
Raised == [r |-> "error", out |-> NoneV, why |-> "none"]

\* strings that pydantic's lax mode parses as an integer
IntStrings == [s \in {"42"} |-> 42]
\* strings that pydantic's lax mode parses as a boolean
BoolStrings == [s \in {"true", "false"} |-> s = "true"]

validate_str(x) == IF K(x) = "str" THEN Ok(x) ELSE Invalid("validation")

validate_int(x, strict) ==
    IF K(x) = "int" THEN Ok(x)
    ELSE IF strict THEN Invalid("validation")
    ELSE IF K(x) \in {"bool", "float"} /\ IsIntegral(x) THEN Ok(IntV(Twice(x) \div 2))
    ELSE IF K(x) = "str" /\ V(x) \in DOMAIN IntStrings THEN Ok(IntV(IntStrings[V(x)]))
    ELSE Invalid("validation")

validate_float(x, strict) ==
    IF K(x) = "float" THEN Ok(x)
    ELSE IF K(x) = "int" THEN Ok(FloatV(Twice(x)))
    ELSE IF strict THEN Invalid("validation")
    ELSE IF K(x) = "bool" THEN Ok(FloatV(Twice(x)))
    ELSE IF K(x) = "str" /\ V(x) \in DOMAIN IntStrings THEN Ok(FloatV(2 * IntStrings[V(x)]))
    ELSE Invalid("validation")

validate_bool(x, strict) ==
    IF K(x) = "bool" THEN Ok(x)
    ELSE IF strict THEN Invalid("validation")
    ELSE IF K(x) \in {"int", "float"} /\ Twice(x) \in {0, 2} THEN Ok(BoolV(Twice(x) = 2))
    ELSE IF K(x) = "str" /\ V(x) \in DOMAIN BoolStrings THEN Ok(BoolV(BoolStrings[V(x)]))
    ELSE Invalid("validation")

\* len() of a str, list or dict value
PyLen(x) == IF K(x) = "str" THEN Len(V(x))
            ELSE IF K(x) \in {"arr", "tuple"} THEN Len(V(x))
            ELSE Cardinality(DOMAIN V(x))

\* Field(**constraints) applied to an already validated value
MeetsConstraints(x, constraints) ==
    /\ Has(constraints, "ge") => Twice(x) >= Twice(constraints.ge)
    /\ Has(constraints, "le") => Twice(x) <= Twice(constraints.le)
    /\ Has(constraints, "gt") => Twice(x) > Twice(constraints.gt)
    /\ Has(constraints, "lt") => Twice(x) < Twice(constraints.lt)
    /\ Has(constraints, "multiple_of") =>
           Twice(x) % Twice(constraints.multiple_of) = 0
    /\ Has(constraints, "min_length") => PyLen(x) >= V(constraints.min_length)
    /\ Has(constraints, "max_length") => PyLen(x) <= V(constraints.max_length)

\* a Literal member matches by kind for bool, int and str, by == otherwise
LiteralMatches(member, x) ==
    IF K(member) \in {"bool", "int", "str"} \/ K(x) \in {"bool", "int", "str"}
    THEN K(member) = K(x) /\ V(member) = V(x)
    ELSE PyEq(member, x)

RECURSIVE Build(_, _, _)
\* TypeAdapter(ty) followed by rebuild(force=True, _types_namespace=ns): TRUE when
\* every forward reference reachable through models, unions, lists and tuples is
\* a key of ns.  The types held by a BeforeValidator closure are not visited.
Build(ty, ns, seen) ==
    IF ty.t = "ref"
    THEN IF ty.name \in seen THEN TRUE
         ELSE IF ty.name \notin DOMAIN ns THEN FALSE
         ELSE Build(ns[ty.name], ns, seen \cup {ty.name})
    ELSE IF ty.t = "model"
         THEN \A f \in DOMAIN ty.fields : Build(ty.fields[f].ty, ns, seen)
    ELSE IF ty.t \in {"union", "tuple"}
         THEN \A i \in DOMAIN ty.types : Build(ty.types[i], ns, seen)
    ELSE IF ty.t = "list" THEN Build(ty.item, ns, seen)
    ELSE IF ty.t = "annotated" THEN Build(ty.base, ns, seen)
    ELSE TRUE


\* validation against a primitive type
validate_primitive(ty, x, strict) ==
    CASE ty.t = "str" -> validate_str(x)
      [] ty.t = "int" -> validate_int(x, strict)
      [] ty.t = "float" -> validate_float(x, strict)
      [] ty.t = "bool" -> validate_bool(x, strict)
      [] ty.t = "none" -> IF K(x) = "null" THEN Ok(x) ELSE Invalid("validation")
      [] ty.t = "dict" -> IF K(x) = "obj" THEN Ok(x) ELSE Invalid("validation")
      [] ty.t = "barelist" -> IF K(x) = "arr" THEN Ok(x) ELSE Invalid("validation")
      [] OTHER -> Ok(x)

\* validation against an Enum class: the input is validated against the base
\* and must then be the value of a member; the member is returned
validate_enum(ty, x, strict) ==
    LET b == validate_primitive(ty.base, x, FALSE) IN
    IF strict \/ b.r # "ok" THEN Invalid("validation")
    ELSE IF \E i \in DOMAIN ty.values : PyEq(ty.values[i], b.out)
         THEN Ok(MemberV(CHOOSE m \in Range(ty.values) : PyEq(m, b.out)))
         ELSE Invalid("validation")

\* validate_const (the function handed to BeforeValidator): a ValueError raised
\* inside a validator function reaches the caller as a ValidationError
validate_const(const_value, value) ==
    IF ~PyEq(value, const_value) THEN Invalid("validation") ELSE Ok(value)

RECURSIVE Validate(_, _, _, _), validate_all(_, _, _), validate_not(_, _, _),
          ValidateItems(_, _, _, _), ValidateTuple(_, _, _, _),
          ValidateFields(_, _, _, _, _), ValidateUnion(_, _, _, _, _)

\* a variant of validate_all that is content with one accepting branch
validate_all_any(converted_types, value, ns) ==
    IF converted_types = <<>> THEN Ok(value)
    ELSE IF \E i \in DOMAIN converted_types :
                /\ Build(converted_types[i], ns, {})
                /\ Validate(converted_types[i], value, ns, FALSE).r = "ok"
         THEN Ok(value)
    ELSE Invalid("validation")

\* the loop of validate_all: each branch gets its own TypeAdapter, rebuilt
\* against the namespace; `except Exception` turns whatever is raised into a
\* ValueError, which reaches the caller as a ValidationError
validate_all(converted_types, value, ns) ==
    IF converted_types = <<>> THEN Ok(value)
    ELSE LET converted_type == Head(converted_types)
             branch == IF ~Build(converted_type, ns, {}) THEN Raised
                       ELSE Validate(converted_type, value, ns, FALSE)
         IN IF branch.r = "ok" THEN validate_all(Tail(converted_types), value, ns)
            ELSE Invalid(IF branch.r = "error" THEN "build" ELSE branch.why)

\* validate_not: a ValidationError of the inner adapter means the value is
\* accepted; the ValueError raised after a successful inner validation is
\* re-raised; an exception that is no ValueError propagates
validate_not(converted_type, value, ns) ==
    LET inner == IF ~Build(converted_type, ns, {}) THEN Raised
                 ELSE Validate(converted_type, value, ns, FALSE)
    IN IF inner.r = "ok" THEN Invalid("validation")
       ELSE IF inner.r = "invalid" THEN Ok(value)
       ELSE Raised

\* the items of a list against one item type: [r, out, why]
ValidateItems(item, xs, ns, strict) ==
    IF xs = <<>> THEN Ok(<<>>)
    ELSE LET h == Validate(item, Head(xs), ns, strict) IN
         IF h.r # "ok" THEN h
         ELSE LET rest == ValidateItems(item, Tail(xs), ns, strict) IN
              IF rest.r # "ok" THEN rest ELSE Ok(<<h.out>> \o rest.out)

\* the items of a list against the positions of a Tuple
ValidateTuple(types, xs, ns, strict) ==
    IF types = <<>> THEN Ok(<<>>)
    ELSE LET h == Validate(Head(types), Head(xs), ns, strict) IN
         IF h.r # "ok" THEN h
         ELSE LET rest == ValidateTuple(Tail(types), Tail(xs), ns, strict) IN
              IF rest.r # "ok" THEN rest ELSE Ok(<<h.out>> \o rest.out)

\* the fields of a model against a dict d: [r, out, why], out maps field to value
ValidateFields(fields, names, d, ns, strict) ==
    IF names = <<>> THEN Ok(EmptyDict)
    ELSE LET f == Head(names)
             h == IF Has(d, f) THEN Validate(fields[f].ty, d[f], ns, strict)
                  ELSE IF Has(fields[f].kw, "default") THEN Ok(fields[f].kw.default)
                  ELSE Invalid("validation")
         IN IF h.r # "ok" THEN h
            ELSE LET rest == ValidateFields(fields, Tail(names), d, ns, strict) IN
                 IF rest.r # "ok" THEN rest ELSE Ok(With(rest.out, f, h.out))

\* a Union in smart mode: the first member that accepts the value as it is
\* (strict), else the first member that accepts it after coercion
ValidateUnion(types, x, ns, strict, pass) ==
    LET hits == {i \in DOMAIN types : Validate(types[i], x, ns, pass).r = "ok"}
    IN IF \E i \in DOMAIN types : Validate(types[i], x, ns, pass).r = "error" THEN Raised
       ELSE IF hits # {}
            THEN Validate(types[CHOOSE i \in hits : \A j \in hits : i <= j], x, ns, pass)
       ELSE IF pass /\ ~strict THEN ValidateUnion(types, x, ns, strict, FALSE)
       ELSE Invalid("validation")

\* TypeAdapter.validate_python / BaseModel.model_validate for a built type
Validate(ty, x, ns, strict) ==
    CASE ty.t = "ref" ->
            IF ty.name \in DOMAIN ns THEN Validate(ns[ty.name], x, ns, strict) ELSE Raised
      [] ty.t = "intersection" -> validate_all(ty.converted_types, x, ns)
      [] ty.t = "not" -> validate_not(ty.converted_type, x, ns)
      [] ty.t = "const" -> validate_const(ty.const_value, x)
      [] ty.t = "never" -> Invalid("validation")
      [] ty.t = "literal" ->
            IF \E i \in DOMAIN ty.values : LiteralMatches(ty.values[i], x)
            THEN Ok(x) ELSE Invalid("validation")
      [] ty.t = "enum" -> validate_enum(ty, x, strict)
      [] ty.t = "union" -> ValidateUnion(ty.types, x, ns, strict, TRUE)
      [] ty.t = "list" ->
            IF K(x) # "arr" THEN Invalid("validation")
            ELSE LET r == ValidateItems(ty.item, V(x), ns, strict) IN
                 IF r.r = "ok" THEN Ok(ArrV(r.out)) ELSE r
      [] ty.t = "tuple" ->
            IF K(x) # "arr" \/ Len(V(x)) # Len(ty.types) THEN Invalid("validation")
            ELSE LET r == ValidateTuple(ty.types, V(x), ns, strict) IN
                 IF r.r = "ok" THEN Ok(TupleV(r.out)) ELSE r
      [] ty.t = "annotated" ->
            LET r == Validate(ty.base, x, ns, strict) IN
            IF r.r # "ok" THEN r
            ELSE IF MeetsConstraints(r.out, ty.constraints) THEN r
            ELSE Invalid("validation")
      [] ty.t = "model" ->
            IF K(x) # "obj" \/ strict THEN Invalid("validation")
            ELSE IF ty.extra = "forbid" /\ ~(DOMAIN V(x) \subseteq DOMAIN ty.fields)
                 THEN Invalid("validation")
            ELSE LET r == ValidateFields(ty.fields, SeqOfSet(DOMAIN ty.fields, PropOrder),
                                         V(x), ns, strict)
                 IN IF r.r # "ok" THEN r
                    ELSE Ok(ModelV(ty.title, r.out,
                                   IF ty.extra = "allow"
                                   THEN [f \in (DOMAIN V(x)) \ (DOMAIN ty.fields) |-> V(x)[f]]
                                   ELSE EmptyDict))
      [] OTHER -> validate_primitive(ty, x, strict)

-----------------------------------------------------------------------------
(* The host library: TypeAdapter.json_schema() / BaseModel.model_json_schema() *)

\* the title pydantic derives from a field name: name.replace("_", " ").title()
AutoTitle == [a |-> "A", b |-> "B", c |-> "C", x |-> "X", name |-> "Name",
              next |-> "Next", p |-> "P"]

JsonTypeName(ty) ==
    CASE ty.t = "str" -> "string" [] ty.t = "int" -> "integer"
      [] ty.t = "float" -> "number" [] ty.t = "bool" -> "boolean"
      [] OTHER -> "null"

\* the schema keywords of Field(**constraints)
ConstraintKeywords(base, constraints) ==
    LET kw(c) == CASE c = "ge" -> "minimum" [] c = "le" -> "maximum"
                   [] c = "gt" -> "exclusiveMinimum" [] c = "lt" -> "exclusiveMaximum"
                   [] c = "multiple_of" -> "multipleOf" [] c = "pattern" -> "pattern"
                   [] c = "min_length" -> IF base.t = "str" THEN "minLength" ELSE "minItems"
                   [] OTHER -> IF base.t = "str" THEN "maxLength" ELSE "maxItems"
    IN [key \in {kw(c) : c \in DOMAIN constraints}
          |-> constraints[CHOOSE c \in DOMAIN constraints : kw(c) = key]]

\* a reference to a named type (model or Enum) moved to "$defs"
DefsRef(title) == ("$ref" :> <<"#/$defs/", title>>)

RECURSIVE JsonFrag(_, _, _), JsonFragAll(_, _, _), JsonNamed(_, _)

\* [JsonFrag(ty) for ty in types]
JsonFragAll(types, ns, seen) ==
    [i \in DOMAIN types |-> JsonFrag(types[i], ns, seen)]

\* the schema of one field of a model
JsonField(name, field, ns) ==
    LET base == JsonFrag(field.ty, ns, {})
        f0 == IF Has(field.kw, "default") THEN With(base, "default", field.kw.default) ELSE base
        f1 == IF Has(field.kw, "description")
              THEN With(f0, "description", field.kw.description) ELSE f0
    IN With(f1, "title", Get(field.kw, "title", AutoTitle[name]))

\* the schema of a named type itself: a model or an Enum
JsonNamed(ty, ns) ==
    IF ty.t = "enum"
    THEN [enum |-> ty.values, title |-> ty.title, type |-> JsonTypeName(ty.base)]
    ELSE LET required == SeqOfSet({f \in DOMAIN ty.fields : ~Has(ty.fields[f].kw, "default")},
                                  PropOrder)
             o0 == [type |-> "object", title |-> ty.title,
                    properties |-> [f \in DOMAIN ty.fields |-> JsonField(f, ty.fields[f], ns)]]
             o1 == IF required # <<>> THEN With(o0, "required", required) ELSE o0
             o2 == IF ty.doc # <<>> THEN With(o1, "description", ty.doc[1]) ELSE o1
         IN IF ty.extra = "forbid" THEN With(o2, "additionalProperties", FALSE)
            ELSE IF ty.extra = "allow" THEN With(o2, "additionalProperties", TRUE)
            ELSE o2

\* the schema of a type in a nested position: named types become references
JsonFrag(ty, ns, seen) ==
    CASE ty.t = "any" -> EmptyDict
      [] ty.t \in {"str", "int", "float", "bool", "none"} -> [type |-> JsonTypeName(ty)]
      [] ty.t = "dict" -> [type |-> "object", additionalProperties |-> TRUE]
      [] ty.t = "barelist" -> [type |-> "array", items |-> EmptyDict]
      [] ty.t = "list" -> [type |-> "array", items |-> JsonFrag(ty.item, ns, seen)]
      [] ty.t = "tuple" ->
            [type |-> "array", prefixItems |-> JsonFragAll(ty.types, ns, seen),
             minItems |-> IntV(Len(ty.types)), maxItems |-> IntV(Len(ty.types))]
      [] ty.t = "union" -> [anyOf |-> JsonFragAll(ty.types, ns, seen)]
      [] ty.t = "annotated" ->
            JsonFrag(ty.base, ns, seen) @@ ConstraintKeywords(ty.base, ty.constraints)
      [] ty.t = "intersection" ->
            IF ty.json_extra THEN [allOf |-> ty.sub_schemas] ELSE EmptyDict
      [] ty.t = "not" -> ("not" :> ty.not_schema)
      [] ty.t = "const" -> [const |-> ty.const_value]
      [] ty.t = "never" -> EmptyDict
      [] ty.t = "literal" ->
            IF Len(ty.values) = 1 THEN [const |-> ty.values[1]] ELSE [enum |-> ty.values]
      [] ty.t = "ref" ->
            IF ty.name \in seen \/ ty.name \notin DOMAIN ns
            THEN ("$ref" :> (<<"#/$defs/">> \o ty.name))
            ELSE JsonFrag(ns[ty.name], ns, seen \cup {ty.name})
      [] OTHER -> DefsRef(ty.title)

RECURSIVE NamedTypes(_, _, _)
\* the named types in nested positions of ty: they are listed under "$defs"
NamedTypes(ty, ns, seen) ==
    CASE ty.t \in {"model", "enum"} ->
            {ty} \cup (IF ty.t = "model"
                       THEN UNION {NamedTypes(ty.fields[f].ty, ns, seen) : f \in DOMAIN ty.fields}
                       ELSE {})
      [] ty.t \in {"union", "tuple"} ->
            UNION {NamedTypes(ty.types[i], ns, seen) : i \in DOMAIN ty.types}
      [] ty.t = "list" -> NamedTypes(ty.item, ns, seen)
      [] ty.t = "annotated" -> NamedTypes(ty.base, ns, seen)
      [] ty.t = "ref" ->
            IF ty.name \in seen \/ ty.name \notin DOMAIN ns THEN {}
            ELSE NamedTypes(ns[ty.name], ns, seen \cup {ty.name})
      [] OTHER -> {}

\* TypeAdapter(ty).json_schema(): a named root type is written in place, the
\* named types below it go to "$defs"
json_schema(ty, ns) ==
    LET root == IF ty.t \in {"model", "enum"} THEN JsonNamed(ty, ns) ELSE JsonFrag(ty, ns, {})
        below == IF ty.t = "model"
                 THEN UNION {NamedTypes(ty.fields[f].ty, ns, {}) : f \in DOMAIN ty.fields}
                 ELSE IF ty.t = "enum" THEN {} ELSE NamedTypes(ty, ns, {})
    IN IF below = {} THEN root
       ELSE With(root, "$defs", [title \in {n.title : n \in below} |->
                                   JsonNamed(CHOOSE n \in below : n.title = title, ns)])

-----------------------------------------------------------------------------
(* _schema_utils: the allOf merge helpers.  A raised ValueError is an ErrT  *)
(* that also carries what the message names.                                *)

\* a variant that asks for a branch with `properties`
is_allof_object_schemas_by_properties(allof_schemas) ==
    \E i \in DOMAIN allof_schemas : Has(allof_schemas[i], "properties")

\* is_allof_object_schemas
is_allof_object_schemas(allof_schemas) ==
    LET has_properties == \E i \in DOMAIN allof_schemas : Has(allof_schemas[i], "properties")
        all_objects == \A i \in DOMAIN allof_schemas :
                          \/ Get(allof_schemas[i], "type", "") = "object"
                          \/ Has(allof_schemas[i], "properties")
                          \/ Has(allof_schemas[i], "additionalProperties")
    IN has_properties \/ all_objects

ObjectTypeError(got) ==
    [t |-> "error", kind |-> "ValueError",
     msg |-> "Incompatible types in allOf: expected 'object'", types |-> <<"object", got>>]

PropertyTypeError(prop_name, existing_type, new_type) ==
    [t |-> "error", kind |-> "ValueError", msg |-> "Incompatible types for property",
     property |-> prop_name, types |-> <<existing_type, new_type>>]

ConstraintTypeError(merged_type, value) ==
    [t |-> "error", kind |-> "ValueError", msg |-> "Incompatible types in allOf",
     types |-> <<merged_type, value>>]

\* a variant in which the first branch that declares the key wins outright
merge_additional_properties_first_wins(merged_additional_properties, sub_schema) ==
    IF ~Has(sub_schema, "additionalProperties") THEN merged_additional_properties
    ELSE IF merged_additional_properties = <<>> THEN <<sub_schema.additionalProperties>>
    ELSE merged_additional_properties

\* "most restrictive wins": None is <<>>, a value v is <<v>>
merge_additional_properties(merged_additional_properties, sub_schema) ==
    IF ~Has(sub_schema, "additionalProperties") THEN merged_additional_properties
    ELSE IF sub_schema.additionalProperties = BoolV(FALSE) THEN <<BoolV(FALSE)>>
    ELSE IF merged_additional_properties = <<>> THEN <<sub_schema.additionalProperties>>
    ELSE merged_additional_properties

RECURSIVE merge_metadata(_, _, _)
\* for key in ["title", "description", "default", "type"]: copy it when unset
merge_metadata(existing, prop_schema, keys) ==
    IF keys = <<>> THEN existing
    ELSE LET key == Head(keys) IN
         merge_metadata(IF Has(prop_schema, key) /\ ~Has(existing, key)
                        THEN With(existing, key, prop_schema[key]) ELSE existing,
                        prop_schema, Tail(keys))

\* a variant of the properties loop in which the later declaration simply wins
merge_properties_last_wins(merged_properties, properties, names) ==
    [props |-> [f \in DOMAIN merged_properties \cup Range(names) |->
                   IF f \in Range(names) THEN properties[f] ELSE merged_properties[f]],
     err |-> NoError]

RECURSIVE merge_properties(_, _, _)
\* the loop over sub_schema["properties"].items(): [props, err]
merge_properties(merged_properties, properties, names) ==
    IF names = <<>> THEN [props |-> merged_properties, err |-> NoError]
    ELSE LET prop_name == Head(names)
             prop_schema == properties[prop_name]
         IN IF Has(merged_properties, prop_name)
            THEN LET existing == merged_properties[prop_name]
                     existing_type == Get(existing, "type", "")
                     new_type == Get(prop_schema, "type", "")
                 IN IF existing_type # "" /\ new_type # "" /\ existing_type # new_type
                    THEN [props |-> merged_properties,
                          err |-> PropertyTypeError(prop_name, existing_type, new_type)]
                    ELSE merge_properties(
                             With(merged_properties, prop_name,
                                  merge_metadata(existing, prop_schema,
                                                 <<"title", "description", "default", "type">>)),
                             properties, Tail(names))
            ELSE merge_properties(With(merged_properties, prop_name, prop_schema),
                                  properties, Tail(names))

RECURSIVE merge_object_loop(_, _)
\* the loop over allof_schemas: acc is [props, required, additional, err]
merge_object_loop(allof_schemas, acc) ==
    IF allof_schemas = <<>> THEN acc
    ELSE LET sub_schema == Head(allof_schemas) IN
         IF Has(sub_schema, "type") /\ sub_schema.type # "object"
         THEN [acc EXCEPT !.err = ObjectTypeError(sub_schema.type)]
         ELSE LET additional == merge_additional_properties(acc.additional, sub_schema)
                  m == IF Has(sub_schema, "properties")
                       THEN merge_properties(acc.props, sub_schema.properties,
                                SeqOfSet(DOMAIN sub_schema.properties, PropOrder))
                       ELSE [props |-> acc.props, err |-> NoError]
              IN IF m.err # NoError THEN [acc EXCEPT !.err = m.err]
                 ELSE merge_object_loop(Tail(allof_schemas),
                          [props |-> m.props,
                           required |-> acc.required \o Get(sub_schema, "required", <<>>),
                           additional |-> additional, err |-> NoError])

\* a variant that leaves merged_required as it was extended
build_merged_schema_with_duplicates(acc, title) ==
    LET m0 == [type |-> "object", properties |-> acc.props]
        m1 == IF acc.required # <<>> THEN With(m0, "required", acc.required) ELSE m0
        m2 == IF acc.additional # <<>>
              THEN With(m1, "additionalProperties", acc.additional[1]) ELSE m1
    IN IF title # "" THEN With(m2, "title", title) ELSE m2

\* the merged fragment built after the loop; list(set(merged_required)) keeps
\* each name once, in an order Python leaves open and no reader depends on:
\* the names are listed in PropOrder
build_merged_schema(acc, title) ==
    LET merged_required == SeqOfSet(Range(acc.required), PropOrder)
        m0 == [type |-> "object", properties |-> acc.props]
        m1 == IF merged_required # <<>> THEN With(m0, "required", merged_required) ELSE m0
        m2 == IF acc.additional # <<>>
              THEN With(m1, "additionalProperties", acc.additional[1]) ELSE m1
    IN IF title # "" THEN With(m2, "title", title) ELSE m2

\* merge_allof_object_schemas(allof_schemas, title): [schema, err]; title None is ""
merge_allof_object_schemas(allof_schemas, title) ==
    LET acc == merge_object_loop(allof_schemas,
                   [props |-> EmptyDict, required |-> <<>>, additional |-> <<>>,
                    err |-> NoError])
    IN IF acc.err # NoError THEN [schema |-> EmptyDict, err |-> acc.err]
       ELSE [schema |-> build_merged_schema(acc, title), err |-> NoError]

\* a sub_schema's keys in dict order: `type` and the metadata first
KeyOrder == <<"type", "title", "description", "default", "properties", "required",
              "additionalProperties", "items", "enum", "minimum", "maximum",
              "minLength", "maxLength", "$ref", "allOf", "anyOf", "oneOf", "not", "const",
              "exclusiveMinimum", "exclusiveMaximum", "multipleOf", "pattern", "minItems",
              "maxItems", "uniqueItems", "prefixItems", "if", "unknown">>

RECURSIVE merge_constraint_keys(_, _, _)
\* a variant in which a later branch overwrites what an earlier one set
merge_constraint_keys_last_wins(merged_schema, sub_schema, keys) ==
    IF keys = <<>> THEN [schema |-> merged_schema, err |-> NoError]
    ELSE LET key == Head(keys)
             value == sub_schema[key]
         IN IF key = "type" /\ Has(merged_schema, "type") /\ merged_schema.type # value
            THEN [schema |-> merged_schema,
                  err |-> ConstraintTypeError(merged_schema.type, value)]
            ELSE merge_constraint_keys(With(merged_schema, key, value), sub_schema,
                                       Tail(keys))

\* for key, value in sub_schema.items(): [schema, err]
merge_constraint_keys(merged_schema, sub_schema, keys) ==
    IF keys = <<>> THEN [schema |-> merged_schema, err |-> NoError]
    ELSE LET key == Head(keys)
             value == sub_schema[key]
         IN IF key = "type"
            THEN IF Has(merged_schema, "type") /\ merged_schema.type # value
                 THEN [schema |-> merged_schema,
                       err |-> ConstraintTypeError(merged_schema.type, value)]
                 ELSE merge_constraint_keys(With(merged_schema, "type", value),
                                            sub_schema, Tail(keys))
            ELSE merge_constraint_keys(IF ~Has(merged_schema, key)
                                       THEN With(merged_schema, key, value)
                                       ELSE merged_schema,
                                       sub_schema, Tail(keys))

RECURSIVE merge_constraint_loop(_, _)
\* for sub_schema in allof_schemas[1:]
merge_constraint_loop(merged_schema, rest) ==
    IF rest = <<>> THEN [schema |-> merged_schema, err |-> NoError]
    ELSE LET m == merge_constraint_keys(merged_schema, Head(rest),
                                        SeqOfSet(DOMAIN Head(rest), KeyOrder))
         IN IF m.err # NoError THEN m ELSE merge_constraint_loop(m.schema, Tail(rest))

\* merge_allof_constraint_schemas(allof_schemas): [schema, err]
merge_allof_constraint_schemas(allof_schemas) ==
    merge_constraint_loop(IF allof_schemas # <<>> THEN allof_schemas[1] ELSE EmptyDict,
                          IF allof_schemas # <<>> THEN Tail(allof_schemas) ELSE <<>>)

-----------------------------------------------------------------------------
(* transform: convert_type.  ctr is [d, c]: dynamic_type_counter and         *)
(* combined_model_counter.  The allOf merge is written out in transform.py;  *)
(* it is the same text as the helpers of _schema_utils, which stand for it.  *)

RECURSIVE transform_convert_type(_, _), transform_convert_all(_, _),
          transform_convert_fields(_, _, _, _)

\* tuple(convert_type(sub_schema) for sub_schema in subs): [tys, ctr, err]
transform_convert_all(subs, ctr) ==
    IF subs = <<>> THEN [tys |-> <<>>, ctr |-> ctr, err |-> NoError]
    ELSE LET h == transform_convert_type(Head(subs), ctr) IN
         IF IsErr(h.ty) THEN [tys |-> <<>>, ctr |-> h.ctr, err |-> h.ty]
         ELSE LET r == transform_convert_all(Tail(subs), h.ctr) IN
              [tys |-> <<h.ty>> \o r.tys, ctr |-> r.ctr, err |-> r.err]

\* the loop over prop.get("properties", {}).items(): [fields, ctr, err]
transform_convert_fields(props, names, required_fields, ctr) ==
    IF names = <<>> THEN [fields |-> EmptyDict, ctr |-> ctr, err |-> NoError]
    ELSE LET name == Head(names)
             property == props[name]
             c == transform_convert_type(property, ctr)
         IN IF IsErr(c.ty) THEN [fields |-> EmptyDict, ctr |-> c.ctr, err |-> c.ty]
            ELSE LET pydantic_type ==
                         IF ~SeqContains(required_fields, name) /\ ~Has(property, "default")
                         THEN OptionalT(c.ty) ELSE c.ty
                     rest == transform_convert_fields(props, Tail(names), required_fields, c.ctr)
                 IN [fields |-> With(rest.fields, name,
                                     [ty |-> pydantic_type,
                                      kw |-> field_kwargs(name, property, required_fields)]),
                     ctr |-> rest.ctr, err |-> rest.err]

\* ConfigDict(extra=...) chosen from additionalProperties
transform_extra(prop) ==
    IF ~Has(prop, "additionalProperties") THEN "ignore"
    ELSE IF prop.additionalProperties = BoolV(FALSE) THEN "forbid"
    ELSE IF prop.additionalProperties = BoolV(TRUE) THEN "allow"
    ELSE "ignore"

\* convert_type, the `type` rule
transform_convert_typed(prop, ctr) ==
    LET type_ == prop.type IN
    IF Has(prop, "enum")
    THEN [ty |-> IF type_ \in {"string", "number", "integer"}
                 THEN EnumT(type_mapping[type_], prop.enum, Get(prop, "title", "DynamicEnum"))
                 ELSE ErrT("TypeError", "not an acceptable Enum base"),
          ctr |-> ctr]
    ELSE IF type_ = "array"
         THEN LET c == transform_convert_type(Get(prop, "items", EmptyDict), ctr) IN
              IF IsErr(c.ty) THEN c ELSE [ty |-> ListT(c.ty), ctr |-> c.ctr]
    ELSE IF type_ = "object"
         THEN IF Has(prop, "properties")
              THEN LET titled == Has(prop, "title") /\ TruthyStr(prop.title)
                       title == IF titled THEN prop.title ELSE DynamicTypeTitle(ctr.d)
                       ctr1 == IF titled THEN ctr ELSE [ctr EXCEPT !.d = @ + 1]
                       r == transform_convert_fields(prop.properties,
                                SeqOfSet(DOMAIN prop.properties, PropOrder),
                                Get(prop, "required", <<>>), ctr1)
                   IN IF r.err # NoError THEN [ty |-> r.err, ctr |-> r.ctr]
                      ELSE [ty |-> ModelT(title, r.fields, prop, transform_extra(prop)),
                            ctr |-> r.ctr]
              ELSE [ty |-> DictT, ctr |-> ctr]
    ELSE [ty |-> Get(type_mapping, type_, AnyT), ctr |-> ctr]

\* convert_type, allOf of object schemas: the merged fragment, [schema, err, ctr]
transform_merge_objects(prop, ctr) ==
    LET acc == merge_object_loop(prop.allOf,
                   [props |-> EmptyDict, required |-> <<>>, additional |-> <<>>,
                    err |-> NoError])
        merged_schema == build_merged_schema(acc, "")
    IN IF acc.err # NoError THEN [schema |-> EmptyDict, err |-> acc.err, ctr |-> ctr]
       ELSE IF Has(prop, "title")
            THEN [schema |-> With(merged_schema, "title", prop.title), err |-> NoError,
                  ctr |-> ctr]
       ELSE [schema |-> With(merged_schema, "title", CombinedModelTitle(ctr.c)),
             err |-> NoError, ctr |-> [ctr EXCEPT !.c = @ + 1]]

\* convert_type, allOf of non-object schemas: the merged fragment, [schema, err]
transform_merge_constraints(prop) ==
    merge_constraint_loop(IF prop.allOf # <<>> THEN prop.allOf[1] ELSE EmptyDict,
                          IF prop.allOf # <<>> THEN Tail(prop.allOf) ELSE <<>>)

\* convert_type, the allOf rule
transform_convert_allof(prop, ctr) ==
    LET has_properties == \E i \in DOMAIN prop.allOf : Has(prop.allOf[i], "properties")
        all_objects == \A i \in DOMAIN prop.allOf :
                          \/ Get(prop.allOf[i], "type", "") = "object"
                          \/ Has(prop.allOf[i], "properties")
                          \/ Has(prop.allOf[i], "additionalProperties")
    IN IF has_properties \/ all_objects
       THEN LET m == transform_merge_objects(prop, ctr) IN
            IF m.err # NoError THEN [ty |-> m.err, ctr |-> m.ctr]
            ELSE transform_convert_type(m.schema, m.ctr)
       ELSE LET m == transform_merge_constraints(prop) IN
            IF m.err # NoError THEN [ty |-> m.err, ctr |-> ctr]
            ELSE transform_convert_type(m.schema, ctr)

\* convert_type of transform
transform_convert_type(prop, ctr) ==
    IF Has(prop, "$ref") THEN [ty |-> RefT(transform_ref_key(prop["$ref"])), ctr |-> ctr]
    ELSE IF Has(prop, "type") THEN transform_convert_typed(prop, ctr)
    ELSE IF Has(prop, "allOf") THEN transform_convert_allof(prop, ctr)
    ELSE IF Has(prop, "anyOf")
         THEN LET r == transform_convert_all(prop.anyOf, ctr) IN
              IF r.err # NoError THEN [ty |-> r.err, ctr |-> r.ctr]
              ELSE [ty |-> UnionT(r.tys), ctr |-> r.ctr]
    ELSE IF DOMAIN prop = {} \/ ~Has(prop, "type") THEN [ty |-> AnyT, ctr |-> ctr]
    ELSE [ty |-> ErrT("ValueError", "Unsupported schema"), ctr |-> ctr]

\* the allOf step of TransformConverter.convert, up to the merged fragment
\* that is converted next: [schema, err, c] with c the combined_model_counter
TransformConverter_merge(prop, combined_model_counter_) ==
    IF is_allof_object_schemas(prop.allOf)
    THEN LET title == IF Has(prop, "title") THEN prop.title
                      ELSE CombinedModelTitle(combined_model_counter_)
             m == merge_allof_object_schemas(prop.allOf, title)
         IN [schema |-> m.schema, err |-> m.err,
             c |-> IF Has(prop, "title") THEN combined_model_counter_
                   ELSE combined_model_counter_ + 1]
    ELSE LET m == merge_allof_constraint_schemas(prop.allOf) IN
         [schema |-> m.schema, err |-> m.err, c |-> combined_model_counter_]

-----------------------------------------------------------------------------
(* collect_definitions.  A definitions container is a sequence of           *)
(* [name, def] in dict order; the table returned is one too.                 *)

\* defs[key] = value on an ordered dict
DictSet(defs, key, value) ==
    IF \E i \in DOMAIN defs : defs[i].name = key
    THEN [i \in DOMAIN defs |-> IF defs[i].name = key THEN [name |-> key, def |-> value]
                                ELSE defs[i]]
    ELSE Append(defs, [name |-> key, def |-> value])

RECURSIVE DictUpdate(_, _)
\* defs.update(nested_defs)
DictUpdate(defs, nested_defs) ==
    IF nested_defs = <<>> THEN defs
    ELSE DictUpdate(DictSet(defs, Head(nested_defs).name, Head(nested_defs).def),
                    Tail(nested_defs))

\* schema_dict.get("$defs", schema_dict.get("definitions", {}))
current_defs(schema_dict) ==
    Get(schema_dict, "$defs", Get(schema_dict, "definitions", <<>>))

\* a definition that is no mapping is written as a tagged value [k, v]
IsDict(definition) == DOMAIN definition \cap {"null", "str", "int", "float", "bool", "arr"} = {}

RECURSIVE cta_collect_definitions(_, _), cta_collect_loop(_, _, _)
\* the loop over current_defs.items() of create_type_adapter's collect_definitions
cta_collect_loop(entries, path, defs) ==
    IF entries = <<>> THEN defs
    ELSE LET name == Head(entries).name
             definition == Head(entries).def
             full_name == IF path # <<>> THEN path \o <<"/">> \o name ELSE name
             defs1 == DictSet(defs, full_name, definition)
             defs2 == IF IsDict(definition)
                      THEN DictUpdate(defs1, cta_collect_definitions(definition, full_name))
                      ELSE defs1
         IN cta_collect_loop(Tail(entries), path, defs2)

\* collect_definitions nested in create_type_adapter
cta_collect_definitions(schema_dict, path) ==
    cta_collect_loop(current_defs(schema_dict), path, <<>>)

RECURSIVE transform_collect_definitions(_, _), transform_collect_loop(_, _, _)
\* the loop over current_defs.items() of transform's collect_definitions
transform_collect_loop(entries, path, defs) ==
    IF entries = <<>> THEN defs
    ELSE LET def_name == Head(entries).name
             definition == Head(entries).def
             full_name == IF path # <<>> THEN path \o <<"/">> \o def_name ELSE def_name
             defs1 == DictSet(defs, full_name, definition)
             defs2 == IF IsDict(definition)
                      THEN DictUpdate(defs1, transform_collect_definitions(definition, full_name))
                      ELSE defs1
         IN transform_collect_loop(Tail(entries), path, defs2)

\* collect_definitions nested in transform
transform_collect_definitions(schema_dict, path) ==
    transform_collect_loop(current_defs(schema_dict), path, <<>>)

-----------------------------------------------------------------------------
(* The documents and values the entry points are called with *)

\* longest allOf / anyOf / oneOf list drawn
MaxBranches == 2
\* calls made on one returned adapter or model
MaxCalls == 2
\* most keywords of the dispatch rules drawn into one fragment
MaxKeywords == 2
\* top-level calls of create_type_adapter / transform made one after another
MaxCompilations == 2

S_empty == EmptyDict
S_str == [type |-> "string"]
S_int == [type |-> "integer"]
S_num == [type |-> "number"]
S_bool == [type |-> "boolean"]
S_null == [type |-> "null"]
S_arr == [type |-> "array"]
S_arr_int == [type |-> "array", items |-> S_int]
S_obj == [type |-> "object"]
S_x_str == [type |-> "object", properties |-> [x |-> S_str]]
S_x_int == [type |-> "object", properties |-> [x |-> S_int]]
S_a_req == [type |-> "object", properties |-> [a |-> S_str], required |-> <<"a">>]
S_b_req == [type |-> "object", properties |-> [b |-> S_str], required |-> <<"b">>]
S_px == [properties |-> [x |-> S_str]]
S_unknown == [unknown |-> StrV("x")]
S_x_required == [type |-> "object", required |-> <<"x">>]
S_min5 == [minLength |-> IntV(5)]
S_str_min3 == [type |-> "string", minLength |-> IntV(3)]
S_min3_max9 == [minLength |-> IntV(3), maxLength |-> IntV(9)]
\* additionalProperties holds a Python value: a bool or a dict (a fragment)
S_a_open == [type |-> "object", properties |-> [a |-> S_str],
             additionalProperties |-> BoolV(TRUE)]
S_closed == [additionalProperties |-> BoolV(FALSE)]
S_b_strings == [type |-> "object", properties |-> [b |-> S_str],
                additionalProperties |-> ObjV(S_str)]

NodeName == <<"N", "o", "d", "e">>
AName == <<"A">>
BName == <<"B">>
MissingName == <<"M", "i", "s", "s">>
RefTo(name) == ("$ref" :> (<<"#", "/">> \o DefsWord \o <<"/">> \o name))

\* "#/" followed by the segments, "/"-joined
LocalRef(segments) == <<"#", "/">> \o join(segments, "/")
MyTypeName == <<"m", "y", "T">>
\* reference strings: one and two levels of both containers, names of mixed
\* case, a path that names no definition, a definition named like a container,
\* no segment at all, and references without a leading "#/"
RefStrings ==
    {LocalRef(<<DefsWord, NodeName>>), LocalRef(<<DefinitionsWord, NodeName>>),
     LocalRef(<<DefsWord, AName, DefsWord, BName>>),
     LocalRef(<<DefinitionsWord, AName, DefsWord, BName>>),
     LocalRef(<<DefsWord, MyTypeName>>),
     LocalRef(<<<<"p">>, <<"x">>>>),
     LocalRef(<<DefsWord, DefinitionsWord>>),
     LocalRef(<<>>),
     <<"#">>, <<"f", "/", "b", "T">>, <<"f", "#", "/", "x", "Y">>, <<"f", "/">>, <<"a", "B">>}
RefOnlySchemas == {("$ref" :> ref) : ref \in RefStrings}

\* sequences over S of length lo..hi
SeqsOver(S, lo, hi) == UNION {[1..n -> S] : n \in lo..hi}

AllOfBranches == {S_str, S_int, S_empty, S_x_str, S_x_int, S_px, S_a_req, S_b_req,
                  S_arr_int}
AllOfSchemas == {[allOf |-> bs] : bs \in SeqsOver(AllOfBranches, 0, MaxBranches)}

\* more branches for the entry points that merge object branches
ObjectBranches == {S_x_required, S_a_open, S_closed, S_b_strings}
MergedAllOfSchemas ==
    {[allOf |-> bs] : bs \in SeqsOver(AllOfBranches \cup ObjectBranches, 0, MaxBranches)}

\* branches that declare x as a string once more, with other keywords
S_x_described == [type |-> "object",
                  properties |-> [x |-> [type |-> "string", description |-> "First"]]]
S_x_long == [type |-> "object",
             properties |-> [x |-> [type |-> "string", minLength |-> IntV(5),
                                    description |-> "Second"]]]
S_x_titled == [type |-> "object",
               properties |-> [x |-> [title |-> "Item Name",
                                      description |-> "The name of the item"]]]
CollidingAllOf == {[allOf |-> <<S_x_str, S_x_titled>>], [allOf |-> <<S_x_str, S_x_long>>],
                   [allOf |-> <<S_x_described, S_x_long>>],
                   [allOf |-> <<S_x_long, S_x_described>>]}

UnionBranches == {S_str, S_int, S_null, S_x_str}
UnionSchemas == {[anyOf |-> bs] : bs \in SeqsOver(UnionBranches, 1, MaxBranches)}
                \cup {[oneOf |-> bs] : bs \in SeqsOver(UnionBranches, 1, MaxBranches)}

NotSchemas == {("not" :> sub) : sub \in {S_str, S_int, S_x_str, S_empty, ("not" :> S_str),
                                        [allOf |-> <<S_str, S_int>>],
                                        [allOf |-> <<RefTo(MissingName)>>],
                                        RefTo(MissingName)}}

ConstValues == {StrV("FIXED"), IntV(1), IntV(42), NoneV, BoolV(TRUE), ObjV([x |-> IntV(42)])}
ConstSchemas == {[const |-> c] : c \in ConstValues}
                \cup {[const |-> StrV("FIXED"), type |-> "integer"]}

\* a definition Node whose property next refers to Node itself
NodeDef == [type |-> "object", properties |-> [next |-> RefTo(NodeName)]]
\* A refers to B
ADef == [type |-> "object", properties |-> [p |-> RefTo(BName)], required |-> <<"p">>]
BDef == [type |-> "object", properties |-> [x |-> S_str], required |-> <<"x">>]
Entry(name, def) == [name |-> name, def |-> def]

RefSchemas ==
    { ("$defs" :> <<Entry(NodeName, NodeDef)>>) @@ RefTo(NodeName),
      ("definitions" :> <<Entry(NodeName, NodeDef)>>) @@
          [type |-> "object", properties |-> [next |-> RefTo(NodeName)]],
      ("$defs" :> <<Entry(AName, ADef), Entry(BName, BDef)>>) @@
          [type |-> "object", properties |-> [a |-> RefTo(AName)]],
      ("$defs" :> <<Entry(BName, BDef), Entry(AName, ADef)>>) @@
          [type |-> "object", properties |-> [a |-> RefTo(AName)]],
      ("$defs" :> <<Entry(AName, ADef), Entry(BName, BDef)>>) @@
          [allOf |-> <<RefTo(AName), S_obj>>],
      ("$defs" :> <<Entry(AName, ADef)>>) @@
          [type |-> "object", properties |-> [a |-> RefTo(AName)]],
      ("$defs" :> <<Entry(BName, S_unknown)>>) @@ S_x_str,
      [type |-> "object", properties |-> [p |-> RefTo(MissingName)]],
      [type |-> "array", items |-> RefTo(MissingName)],
      [anyOf |-> <<S_str, RefTo(MissingName)>>],
      [allOf |-> <<RefTo(MissingName)>>],
      [allOf |-> <<S_x_str, [type |-> "object", properties |-> [p |-> RefTo(MissingName)]]>>] }

\* documents with a fragment of unknown keywords only, in every position
UnsupportedSchemas ==
    {S_unknown, [title |-> "Only a title"],
     [type |-> "object", properties |-> [p |-> S_unknown]],
     [type |-> "object", properties |-> [a |-> S_str, p |-> S_unknown]],
     [type |-> "array", items |-> S_unknown],
     [type |-> "array", prefixItems |-> <<S_str, S_unknown>>],
     [allOf |-> <<S_str, S_unknown>>],
     [anyOf |-> <<S_str, S_unknown>>],
     [oneOf |-> <<S_unknown, S_str>>],
     ("not" :> S_unknown),
     ("$defs" :> <<Entry(AName, ADef), Entry(BName, [type |-> "array", items |-> S_unknown])>>)
         @@ S_x_str}

\* documents with `if`
IfSchemas ==
    {("if" :> S_str), ("if" :> S_unknown),
     ("if" :> S_str) @@ [type |-> "string"],
     [type |-> "object", properties |-> [p |-> ("if" :> S_str)]]}

\* one value for a keyword of every dispatch rule, and for a keyword of none
DispatchPool ==
    [allOf |-> <<S_int>>, anyOf |-> <<S_str>>, oneOf |-> <<S_bool>>, const |-> IntV(1),
     enum |-> <<StrV("VALUE_1")>>, type |-> "string", minimum |-> IntV(1),
     unknown |-> StrV("x")]
    @@ ("$ref" :> RefTo(BName)["$ref"]) @@ ("not" :> S_null) @@ ("if" :> S_str)

\* fragments with up to MaxKeywords of these keywords; B is defined where it is
\* referred to
DispatchSchemas ==
    {[k \in ks |-> DispatchPool[k]]
        @@ (IF "$ref" \in ks THEN ("$defs" :> <<Entry(BName, S_str)>>) ELSE EmptyDict) :
        ks \in {ks \in SUBSET DOMAIN DispatchPool :
                   Cardinality(ks) >= 1 /\ Cardinality(ks) <= MaxKeywords}}

\* fragments of the properties of the plain objects
FieldSchemas == {S_str,
                 [type |-> "string", title |-> "A Title"],
                 [type |-> "integer", title |-> "N", default |-> IntV(0)],
                 [type |-> "string", title |-> "A Title", description |-> "A description"]}

PlainObjects ==
    {props @@ req @@ meta :
        props \in {[type |-> "object", properties |-> ps] :
                      ps \in [{"a"} -> FieldSchemas] \cup [{"a", "b"} -> FieldSchemas]},
        req \in {EmptyDict, [required |-> <<"a">>], [required |-> <<"a", "b">>],
                 [required |-> <<"b", "a">>]},
        meta \in {EmptyDict, [title |-> "Person"],
                  [title |-> "Person", description |-> "A person"]}}

PlainEnums == {[type |-> "string", enum |-> <<StrV("VALUE_1"), StrV("VALUE_2")>>],
               [type |-> "string", enum |-> <<StrV("VALUE_1"), StrV("VALUE_2")>>,
                title |-> "CustomEnum"],
               [enum |-> <<StrV("VALUE_1"), StrV("VALUE_2")>>],
               [enum |-> <<IntV(1), StrV("VALUE_1")>>]}

\* `enum` without `type`: empty, with a boolean, of mixed kinds, of one
\* primitive kind, of one other kind
UntypedEnums == {[enum |-> <<>>], [enum |-> <<BoolV(TRUE), IntV(1)>>],
                 [enum |-> <<NoneV, StrV("hello")>>], [enum |-> <<IntV(42), IntV(1)>>],
                 [enum |-> <<FloatV(7), FloatV(2)>>], [enum |-> <<NoneV>>]}

\* arrays: tuples from prefixItems, from a list-valued items, from both; an
\* empty prefixItems; length bounds; uniqueItems
ArraySchemas ==
    {[type |-> "array", prefixItems |-> <<S_str, S_int>>],
     [type |-> "array", items |-> [tuple_items |-> <<S_int, S_str>>]],
     [type |-> "array", items |-> [tuple_items |-> <<S_int>>], prefixItems |-> <<S_str>>],
     [type |-> "array", prefixItems |-> <<>>],
     [type |-> "array", items |-> [tuple_items |-> <<S_int>>], prefixItems |-> <<>>],
     [type |-> "array", items |-> S_int, minItems |-> IntV(2), maxItems |-> IntV(2)],
     [type |-> "array", items |-> S_int, maxItems |-> IntV(1)],
     [type |-> "array", items |-> S_int, uniqueItems |-> BoolV(TRUE)],
     [type |-> "array", uniqueItems |-> BoolV(TRUE), minItems |-> IntV(2)]}

PlainSchemas ==
    {S_empty, S_str, S_int, S_num, S_bool, S_null, S_arr, S_arr_int, S_obj,
     [type |-> "list"],
     [type |-> "array", items |-> S_arr_int], [type |-> "array", items |-> S_arr],
     [type |-> "array", items |-> S_x_str]}
    \cup PlainObjects \cup PlainEnums

NestedAllOf == {[type |-> "object", properties |-> [p |-> [allOf |-> bs]]] :
                   bs \in {<<>>, <<S_str>>, <<S_x_str, S_x_int>>, <<S_a_req, S_b_req>>,
                           <<S_min5, S_str>>, <<S_str_min3, S_min5>>, <<S_min5, S_str, S_int>>}}

\* branches that are no objects, for the constraint merge
ConstraintBranches == {S_str, S_int, S_empty, S_min5, S_str_min3, S_min3_max9}
ConstraintAllOf ==
    {[allOf |-> bs] : bs \in SeqsOver(ConstraintBranches, 0, MaxBranches)}
    \cup {[allOf |-> <<S_min5, S_str, S_int>>], [allOf |-> <<S_min5, S_str, S_str_min3>>]}

\* documents for the definition collector: both containers at one fragment,
\* a nested container, a definition that is no mapping, two entries with one
\* key, a definition with an empty name, names that differ in case only, and a
\* definition named like a container
ABPath == <<"A", "/", "B">>
LowerAbName == <<"a", "b">>
UpperAbName == <<"A", "B">>
NestedBRef == ("$ref" :> LocalRef(<<DefinitionsWord, AName, DefsWord, BName>>))
PropertyA(fragment) ==
    [type |-> "object", properties |-> [a |-> fragment], required |-> <<"a">>]
DefinitionSchemas ==
    { ("$defs" :> <<Entry(AName, S_str)>>) @@ ("definitions" :> <<Entry(BName, S_int)>>)
          @@ PropertyA(RefTo(AName)),
      ("definitions" :> <<Entry(AName, ("$defs" :> <<Entry(BName, S_str)>>) @@ S_obj)>>)
          @@ PropertyA(NestedBRef),
      ("$defs" :> <<Entry(AName, BoolV(TRUE)), Entry(BName, S_str)>>) @@ S_str,
      ("$defs" :> <<Entry(AName, ("$defs" :> <<Entry(BName, S_str)>>) @@ S_obj),
                    Entry(ABPath, S_int)>>)
          @@ PropertyA(("$ref" :> LocalRef(<<DefsWord, AName, DefsWord, BName>>))),
      ("$defs" :> <<Entry(<<>>, ("$defs" :> <<Entry(AName, S_str)>>) @@ S_obj),
                    Entry(AName, S_int)>>)
          @@ PropertyA(RefTo(AName)),
      ("$defs" :> <<Entry(LowerAbName, S_str), Entry(UpperAbName, S_int)>>)
          @@ PropertyA(RefTo(LowerAbName)),
      ("$defs" :> <<Entry(DefinitionsWord, S_str)>>) @@ PropertyA(RefTo(DefinitionsWord)) }

\* branch lists of objects that declare no properties, and of an object with a
\* branch that is none
ObjectOnlyAllOf == {[allOf |-> <<S_obj, S_obj>>], [allOf |-> <<S_obj>>],
                    [allOf |-> <<S_obj, S_closed>>], [allOf |-> <<S_obj, S_min5>>],
                    [allOf |-> <<S_min5, S_obj>>]}
\* documents with several anonymous and titled object fragments and merges
CounterSchemas ==
    {[type |-> "object",
      properties |-> [a |-> S_x_str,
                      b |-> [type |-> "object", title |-> "Person",
                             properties |-> [x |-> S_x_int]]]],
     ("$defs" :> <<Entry(AName, S_x_str)>>)
         @@ [type |-> "object", properties |-> [a |-> RefTo(AName), b |-> S_x_int]],
     [type |-> "object", title |-> "", properties |-> [x |-> S_str]],
     [type |-> "object",
      properties |-> [a |-> [allOf |-> <<S_x_str>>],
                      b |-> [allOf |-> <<S_x_int, S_a_req>>, title |-> "Both"],
                      p |-> [allOf |-> <<S_b_req>>]]],
     [allOf |-> <<S_x_str>>, title |-> ""]}

\* the same under property p of an object
NestedObjectOnlyAllOf ==
    {[type |-> "object", properties |-> [p |-> [allOf |-> <<S_obj, S_obj>>]],
      required |-> <<"p">>]}

Inputs(entry) ==
    CASE entry = "create_type_adapter" ->
            AllOfSchemas \cup CollidingAllOf \cup UnionSchemas \cup NotSchemas
            \cup ConstSchemas \cup RefSchemas \cup PlainSchemas \cup NestedAllOf
            \cup UnsupportedSchemas \cup IfSchemas \cup DispatchSchemas
            \cup RefOnlySchemas \cup DefinitionSchemas \cup UntypedEnums
            \cup ArraySchemas \cup CounterSchemas
      [] entry = "transform" ->
            MergedAllOfSchemas \cup CollidingAllOf \cup UnionSchemas \cup RefSchemas
            \cup PlainSchemas \cup NestedAllOf \cup ObjectOnlyAllOf
            \cup NestedObjectOnlyAllOf \cup RefOnlySchemas \cup DefinitionSchemas
            \cup CounterSchemas
      [] entry = "merge_allof_constraint_schemas" -> ConstraintAllOf
      [] entry = "resolve_ref_path" -> RefOnlySchemas
      [] OTHER ->
            MergedAllOfSchemas \cup CollidingAllOf \cup ConstraintAllOf
            \cup ObjectOnlyAllOf
            \cup {[allOf |-> <<S_a_req, S_b_req>>, title |-> "Both"]}

Values ==
    {StrV("hello"), StrV("42"), StrV("FIXED"), StrV("fixed"), IntV(42), IntV(1),
     FloatV(7), FloatV(2), BoolV(TRUE), NoneV, ArrV(<<IntV(1), IntV(42)>>),
     ArrV(<<IntV(1), IntV(1)>>),
     ArrV(<<StrV("hello")>>), ObjV(EmptyDict), ObjV([x |-> StrV("hello")]),
     ObjV([x |-> IntV(42)]), ObjV([a |-> StrV("hello")]),
     ObjV([a |-> StrV("hello"), b |-> StrV("hello")]),
     ObjV([p |-> IntV(42)]), ObjV([p |-> ObjV(EmptyDict)]),
     ObjV([a |-> NoneV]), ObjV([a |-> IntV(42)]),
     ObjV([next |-> NoneV]), ObjV([next |-> ObjV([next |-> NoneV])]),
     ObjV([a |-> ObjV([p |-> ObjV([x |-> StrV("hello")])])])}

-----------------------------------------------------------------------------
(* The entry points as a state machine *)

NoType == [t |-> "unset"]
NoCall == [nocall |-> 0]
NoOutcome == [r |-> "none", out |-> NoneV, why |-> "none"]
NoJson == [unset |-> TRUE]
NoMerge == [schema |-> EmptyDict, err |-> NoError, c |-> 0, done |-> FALSE]

EntryPoints == {"create_type_adapter", "transform", "TransformConverter",
                "merge_allof_constraint_schemas", "resolve_ref_path"}

Init ==
    /\ api \in EntryPoints
    /\ schema \in Inputs(api)
    /\ pc = "called"
    /\ all_definitions = <<>>
    /\ idx = 1
    /\ namespace = EmptyDict
    /\ dynamic_type_counter = 0
    /\ combined_model_counter = 0
    /\ model = NoType
    /\ error = NoError
    /\ merged = NoMerge
    /\ val = NoCall
    /\ outcome = NoOutcome
    /\ js = NoJson
    /\ calls = 0
    /\ failed_before = FALSE
    /\ resolved = <<>>
    /\ earlier = <<>>

\* convert_type handed a definition that is no mapping: `"$ref" in prop` raises
\* TypeError on a bool, a number or None; on a str or a list every `in` test
\* fails (the strings drawn contain no keyword), which leaves create_type_adapter
\* with Any for an empty one and the unsupported-schema error otherwise, and
\* transform with Any
convert_non_mapping(prop) ==
    IF K(prop) \in {"bool", "int", "float", "null"}
    THEN ErrT("TypeError", "argument is not iterable")
    ELSE IF api = "create_type_adapter" /\ PyLen(prop) > 0
         THEN ErrT("ValueError", "Unsupported schema")
    ELSE AnyT

-----------------------------------------------------------------------------
(* The assignments of the merge loops, told by the mapping each one lands   *)
(* on.  A cell is what a name of the merge is bound to: val is its content, *)
(* shared tells whether it is the caller's own mapping, branch is the       *)
(* branch it was read from.                                                 *)

\* a variant without the copy: the merge works on the branch's own mapping
dict_copy_alias(d, branch) == [val |-> d, shared |-> TRUE, branch |-> branch]

\* d.copy(): a new mapping with the items of d; the values stay shared
dict_copy(d, branch) == [val |-> d, shared |-> FALSE, branch |-> branch]

RECURSIVE PropertySteps(_, _)
\* the (branch, property name) pairs in the order the two loops reach them; a
\* branch whose type is not "object" raises before its properties are read
PropertySteps(allof_schemas, i) ==
    IF i > Len(allof_schemas) THEN <<>>
    ELSE IF Has(allof_schemas[i], "type") /\ allof_schemas[i].type # "object" THEN <<>>
    ELSE LET names == IF Has(allof_schemas[i], "properties")
                      THEN SeqOfSet(DOMAIN allof_schemas[i].properties, PropOrder)
                      ELSE <<>>
         IN [k \in 1..Len(names) |-> [branch |-> i, name |-> names[k]]]
            \o PropertySteps(allof_schemas, i + 1)

\* every branch passes the type check of the object merge
ObjectBranchesOnly(allof_schemas) ==
    \A i \in DOMAIN allof_schemas :
        Has(allof_schemas[i], "type") => allof_schemas[i].type = "object"

RECURSIVE object_merge_writes(_, _, _)
\* the properties loop of the object merge: [input, cells, ok] with input the
\* caller's list after the loop, cells the merged_properties, ok FALSE on a raise.
\* `existing[key] = prop_schema[key]` lands on the cell, and on the caller's
\* mapping as well when the cell is shared.
object_merge_writes(allof_schemas, steps, cells) ==
    IF steps = <<>>
    THEN [input |-> allof_schemas, cells |-> cells, ok |-> ObjectBranchesOnly(allof_schemas)]
    ELSE LET i == Head(steps).branch
             prop_name == Head(steps).name
             prop_schema == allof_schemas[i].properties[prop_name]
         IN IF Has(cells, prop_name)
            THEN LET existing == cells[prop_name]
                     existing_type == Get(existing.val, "type", "")
                     new_type == Get(prop_schema, "type", "")
                 IN IF existing_type # "" /\ new_type # "" /\ existing_type # new_type
                    THEN [input |-> allof_schemas, cells |-> cells, ok |-> FALSE]
                    ELSE LET written == merge_metadata(existing.val, prop_schema,
                                            <<"title", "description", "default", "type">>)
                         IN object_merge_writes(
                                IF existing.shared
                                THEN [allof_schemas EXCEPT
                                        ![existing.branch].properties[prop_name] = written]
                                ELSE allof_schemas,
                                Tail(steps),
                                With(cells, prop_name, [existing EXCEPT !.val = written]))
            ELSE object_merge_writes(allof_schemas, Tail(steps),
                                     With(cells, prop_name, dict_copy(prop_schema, i)))

RECURSIVE constraint_merge_writes(_, _, _, _)
\* the loops of the constraint merge over allof_schemas[1:]: [input, cell, ok]
\* with cell the merged_schema; `merged_schema[key] = value` lands on the cell,
\* and on allof_schemas[0] as well when the cell is shared
constraint_merge_writes(allof_schemas, i, keys, cell) ==
    IF i > Len(allof_schemas) THEN [input |-> allof_schemas, cell |-> cell, ok |-> TRUE]
    ELSE IF keys = <<>>
         THEN constraint_merge_writes(allof_schemas, i + 1,
                  IF i + 1 <= Len(allof_schemas)
                  THEN SeqOfSet(DOMAIN allof_schemas[i + 1], KeyOrder) ELSE <<>>,
                  cell)
    ELSE LET key == Head(keys)
             value == allof_schemas[i][key]
         IN IF key = "type" /\ Has(cell.val, "type") /\ cell.val.type # value
            THEN [input |-> allof_schemas, cell |-> cell, ok |-> FALSE]
            ELSE IF key = "type" \/ ~Has(cell.val, key)
                 THEN LET written == With(cell.val, key, value) IN
                      constraint_merge_writes(
                          IF cell.shared
                          THEN [allof_schemas EXCEPT ![cell.branch] = written]
                          ELSE allof_schemas,
                          i, Tail(keys), [cell EXCEPT !.val = written])
                 ELSE constraint_merge_writes(allof_schemas, i, Tail(keys), cell)

\* merge_allof_constraint_schemas, told by what it leaves in the caller's list
constraint_merge_input(allof_schemas) ==
    IF allof_schemas = <<>>
    THEN [input |-> allof_schemas, cell |-> dict_copy(EmptyDict, 0), ok |-> TRUE]
    ELSE constraint_merge_writes(allof_schemas, 2,
             IF Len(allof_schemas) >= 2 THEN SeqOfSet(DOMAIN allof_schemas[2], KeyOrder)
             ELSE <<>>,
             dict_copy(allof_schemas[1], 1))

\* merge_allof_object_schemas, told by what it leaves in the caller's list
object_merge_input(allof_schemas) ==
    object_merge_writes(allof_schemas, PropertySteps(allof_schemas, 1), EmptyDict)

\* the caller's mapping `was` after convert_type walked the cell made from it:
\* the values are shared with the cell, the keys are the cell's own unless the
\* cell is the mapping itself
WalkedBack(was, cell, walked) ==
    IF cell.shared THEN walked ELSE [k \in DOMAIN was |-> walked[k]]

RECURSIVE transform_writes(_), transform_writes_all(_), transform_writes_fields(_, _),
          transform_writes_merged(_, _, _)
\* convert_type of transform, told by what it leaves in the fragment handed to
\* it: [frag, ok], ok FALSE when the walk raised; what was written before a
\* raise stays written, what the walk had not reached is untouched
transform_writes(prop) ==
    IF ~IsDict(prop)
    THEN [frag |-> prop, ok |-> K(prop) \in {"str", "arr"}]
    ELSE IF Has(prop, "$ref") THEN [frag |-> prop, ok |-> TRUE]
    ELSE IF Has(prop, "type")
         THEN IF Has(prop, "enum")
              THEN [frag |-> prop, ok |-> prop.type \in {"string", "number", "integer"}]
              ELSE IF prop.type = "array"
                   THEN LET w == transform_writes(Get(prop, "items", EmptyDict)) IN
                        [frag |-> IF Has(prop, "items") THEN [prop EXCEPT !.items = w.frag]
                                  ELSE prop,
                         ok |-> w.ok]
              ELSE IF prop.type = "object" /\ Has(prop, "properties")
                   THEN LET w == transform_writes_fields(prop.properties,
                                     SeqOfSet(DOMAIN prop.properties, PropOrder))
                        IN [frag |-> [prop EXCEPT !.properties = w.frag], ok |-> w.ok]
              ELSE [frag |-> prop, ok |-> TRUE]
    ELSE IF Has(prop, "allOf")
         THEN IF is_allof_object_schemas(prop.allOf)
              THEN LET loop == object_merge_input(prop.allOf) IN
                   IF ~loop.ok THEN [frag |-> [prop EXCEPT !.allOf = loop.input], ok |-> FALSE]
                   ELSE LET w == transform_writes_merged(loop.input, loop.cells,
                                     SeqOfSet(DOMAIN loop.cells, PropOrder))
                        IN [frag |-> [prop EXCEPT !.allOf = w.frag], ok |-> w.ok]
              ELSE LET loop == constraint_merge_input(prop.allOf) IN
                   IF ~loop.ok THEN [frag |-> [prop EXCEPT !.allOf = loop.input], ok |-> FALSE]
                   ELSE LET w == transform_writes(loop.cell.val)
                            first(k) == CHOOSE j \in DOMAIN loop.input :
                                           /\ Has(loop.input[j], k)
                                           /\ \A l \in 1..(j - 1) : ~Has(loop.input[l], k)
                        IN [frag |-> [prop EXCEPT !.allOf =
                                [j \in DOMAIN loop.input |->
                                    IF j = 1 /\ loop.cell.shared THEN w.frag
                                    ELSE [k \in DOMAIN loop.input[j] |->
                                            IF first(k) = j THEN w.frag[k]
                                            ELSE loop.input[j][k]]]],
                            ok |-> w.ok]
    ELSE IF Has(prop, "anyOf")
         THEN LET w == transform_writes_all(prop.anyOf) IN
              [frag |-> [prop EXCEPT !.anyOf = w.frag], ok |-> w.ok /\ prop.anyOf # <<>>]
    ELSE [frag |-> prop, ok |-> TRUE]

\* convert_type over a list of fragments, in order, up to the first raise
transform_writes_all(sub_schemas) ==
    IF sub_schemas = <<>> THEN [frag |-> <<>>, ok |-> TRUE]
    ELSE LET w == transform_writes(Head(sub_schemas)) IN
         IF ~w.ok THEN [frag |-> <<w.frag>> \o Tail(sub_schemas), ok |-> FALSE]
         ELSE LET rest == transform_writes_all(Tail(sub_schemas)) IN
              [frag |-> <<w.frag>> \o rest.frag, ok |-> rest.ok]

\* convert_type over the properties of an object fragment, up to the first raise
transform_writes_fields(properties, names) ==
    IF names = <<>> THEN [frag |-> properties, ok |-> TRUE]
    ELSE LET w == transform_writes(properties[Head(names)])
             written == [properties EXCEPT ![Head(names)] = w.frag]
         IN IF ~w.ok THEN [frag |-> written, ok |-> FALSE]
            ELSE transform_writes_fields(written, Tail(names))

\* convert_type over the merged properties: each is walked as the cell it is,
\* and what the walk writes lands on the branch the cell was read from
transform_writes_merged(allof_schemas, cells, names) ==
    IF names = <<>> THEN [frag |-> allof_schemas, ok |-> TRUE]
    ELSE LET cell == cells[Head(names)]
             w == transform_writes(cell.val)
             was == allof_schemas[cell.branch].properties[Head(names)]
             written == [allof_schemas EXCEPT ![cell.branch].properties[Head(names)] =
                                                  WalkedBack(was, cell, w.frag)]
         IN IF ~w.ok THEN [frag |-> written, ok |-> FALSE]
            ELSE transform_writes_merged(written, cells, Tail(names))

RECURSIVE definition_written(_, _, _, _)
\* the document after convert_type left `frag` in the definition collected
\* under the full name of `target` (an entry of all_definitions); the
\* containers are walked as collect_definitions walks them
definition_written(schema_dict, path, target, frag) ==
    IF ~IsDict(schema_dict) \/ current_defs(schema_dict) = <<>> THEN schema_dict
    ELSE LET word == IF Has(schema_dict, "$defs") THEN "$defs" ELSE "definitions"
             entries == schema_dict[word]
             full_name(i) == IF path # <<>> THEN path \o <<"/">> \o entries[i].name
                             ELSE entries[i].name
         IN [schema_dict EXCEPT ![word] =
                [i \in DOMAIN entries |->
                    IF full_name(i) = target.name /\ entries[i].def = target.def
                    THEN Entry(entries[i].name, frag)
                    ELSE Entry(entries[i].name,
                               definition_written(entries[i].def, full_name(i), target,
                                                  frag))]]

\* the fragment after convert_type of the entry point in use: convert_type of
\* create_type_adapter assigns to no mapping it was handed
convert_writes(prop) ==
    IF api = "transform" THEN transform_writes(prop).frag ELSE prop

\* convert_type of the entry point in use, on the current counters: [ty, d, c]
convert(prop) ==
    IF ~IsDict(prop)
    THEN [ty |-> convert_non_mapping(prop), d |-> dynamic_type_counter,
          c |-> combined_model_counter]
    ELSE IF api = "create_type_adapter"
    THEN LET r == cta_convert_type(prop, dynamic_type_counter) IN
         [ty |-> r.ty, d |-> r.ctr, c |-> combined_model_counter]
    ELSE LET r == transform_convert_type(prop, [d |-> dynamic_type_counter,
                                                c |-> combined_model_counter]) IN
         [ty |-> r.ty, d |-> r.ctr.d, c |-> r.ctr.c]

\* all_definitions = collect_definitions(schema)
CollectDefinitions ==
    /\ pc = "called"
    /\ api \in {"create_type_adapter", "transform"}
    /\ all_definitions' = IF api = "create_type_adapter"
                          THEN cta_collect_definitions(schema, <<>>)
                          ELSE transform_collect_definitions(schema, <<>>)
    /\ pc' = "definitions"
    /\ UNCHANGED <<calls, failed_before, resolved, earlier, api, schema, idx, namespace, dynamic_type_counter,
                   combined_model_counter, model, error, merged, val, outcome, js>>

\* a variant that compiles the root without waiting for the definitions
DefinitionsDone_at_once == TRUE

\* the loop `for name, definition in all_definitions.items()` has run out
DefinitionsDone == idx > Len(all_definitions)

\* one turn of the loop: namespace[key] = convert_type(definition)
CompileDefinition ==
    /\ pc = "definitions"
    /\ ~DefinitionsDone
    /\ \E r \in {convert(all_definitions[idx].def)} :
       /\ dynamic_type_counter' = r.d
       /\ combined_model_counter' = r.c
       /\ IF IsErr(r.ty)
          THEN /\ pc' = "raised"
               /\ error' = r.ty
               /\ UNCHANGED <<namespace, idx>>
          ELSE /\ namespace' = With(namespace, namespace_key(all_definitions[idx].name), r.ty)
               /\ idx' = idx + 1
               /\ UNCHANGED <<pc, error>>
    /\ \E w \in {convert_writes(all_definitions[idx].def)} :
       /\ all_definitions' = [all_definitions EXCEPT ![idx].def = w]
       /\ schema' = definition_written(schema, <<>>, all_definitions[idx], w)
    /\ UNCHANGED <<calls, failed_before, resolved, earlier, api, model, merged, val, outcome, js>>

\* model = convert_type(schema)
CompileRoot ==
    /\ pc = "definitions"
    /\ DefinitionsDone
    /\ \E r \in {convert(schema)} :
       /\ dynamic_type_counter' = r.d
       /\ combined_model_counter' = r.c
       /\ IF IsErr(r.ty)
          THEN pc' = "raised" /\ error' = r.ty /\ UNCHANGED model
          ELSE pc' = "root" /\ model' = r.ty /\ UNCHANGED error
    /\ schema' = convert_writes(schema)
    /\ UNCHANGED <<calls, failed_before, resolved, earlier, api, all_definitions, idx, namespace, merged, val, outcome, js>>

\* create_type_adapter: TypeAdapter(model); rebuild(force=True, _types_namespace=namespace)
BindAdapter ==
    /\ pc = "root"
    /\ api = "create_type_adapter"
    /\ IF Build(model, namespace, {})
       THEN pc' = "returned" /\ UNCHANGED error
       ELSE pc' = "raised" /\ error' = ErrT("PydanticUndefinedAnnotation", "name not defined")
    /\ UNCHANGED <<calls, failed_before, resolved, earlier, api, schema, all_definitions, idx, namespace, dynamic_type_counter,
                   combined_model_counter, model, merged, val, outcome, js>>

\* transform: the BaseModel check, then model_rebuild(force=True, _types_namespace=namespace)
BindModel ==
    /\ pc = "root"
    /\ api = "transform"
    /\ IF model.t # "model"
       THEN pc' = "raised" /\ error' = ErrT("ValueError", "Unable to convert schema.")
       ELSE IF Build(model, namespace, {})
       THEN pc' = "returned" /\ UNCHANGED error
       ELSE pc' = "raised" /\ error' = ErrT("PydanticUndefinedAnnotation", "name not defined")
    /\ UNCHANGED <<calls, failed_before, resolved, earlier, api, schema, all_definitions, idx, namespace, dynamic_type_counter,
                   combined_model_counter, model, merged, val, outcome, js>>

\* a variant in which a call that follows a failed call finds the validator broken
ValidatePython_poisoned ==
    /\ pc = "returned"
    /\ calls < MaxCalls
    /\ calls' = calls + 1
    /\ failed_before' = (failed_before \/ outcome.r \in {"invalid", "error"})
    /\ \E value \in Values :
          /\ val' = value
          /\ outcome' = IF failed_before' THEN Raised
                        ELSE Validate(model, value, namespace, FALSE)
    /\ js' = NoJson
    /\ UNCHANGED <<resolved, earlier, api, schema, pc, all_definitions, idx, namespace, dynamic_type_counter,
                   combined_model_counter, model, error, merged>>

\* adapter.validate_python(value) / model.model_validate(value)
ValidatePython ==
    /\ pc = "returned"
    /\ calls < MaxCalls
    /\ calls' = calls + 1
    /\ failed_before' = (failed_before \/ outcome.r \in {"invalid", "error"})
    /\ \E value \in Values :
          /\ val' = value
          /\ outcome' = Validate(model, value, namespace, FALSE)
    /\ js' = NoJson
    /\ UNCHANGED <<resolved, earlier, api, schema, pc, all_definitions, idx, namespace, dynamic_type_counter,
                   combined_model_counter, model, error, merged>>

\* adapter.json_schema() / model.model_json_schema()
JsonSchema ==
    /\ pc = "returned"
    /\ calls < MaxCalls
    /\ calls' = calls + 1
    /\ failed_before' = (failed_before \/ outcome.r \in {"invalid", "error"})
    /\ js' = json_schema(model, namespace)
    /\ val' = NoCall
    /\ outcome' = NoOutcome
    /\ UNCHANGED <<resolved, earlier, api, schema, pc, all_definitions, idx, namespace, dynamic_type_counter,
                   combined_model_counter, model, error, merged>>

\* TransformConverter.convert on an allOf fragment, up to the merged fragment
MergeAllOf ==
    /\ pc = "called"
    /\ api = "TransformConverter"
    /\ \E m \in {TransformConverter_merge(schema, combined_model_counter)} :
       /\ merged' = [schema |-> IF m.err # NoError THEN EmptyDict ELSE m.schema,
                     err |-> m.err, c |-> m.c, done |-> TRUE]
       /\ combined_model_counter' = m.c
       /\ IF m.err # NoError THEN pc' = "raised" /\ error' = m.err
          ELSE pc' = "merged" /\ UNCHANGED error
    /\ schema' = [schema EXCEPT !.allOf = IF is_allof_object_schemas(@)
                                          THEN object_merge_input(@).input
                                          ELSE constraint_merge_input(@).input]
    /\ UNCHANGED <<calls, failed_before, resolved, earlier, api, all_definitions, idx, namespace, dynamic_type_counter,
                   model, val, outcome, js>>

\* merge_allof_constraint_schemas called on a branch list (kept under allOf)
MergeConstraintSchemas ==
    /\ pc = "called"
    /\ api = "merge_allof_constraint_schemas"
    /\ \E m \in {merge_allof_constraint_schemas(schema.allOf)} :
       /\ merged' = [schema |-> IF m.err # NoError THEN EmptyDict ELSE m.schema,
                     err |-> m.err, c |-> 0, done |-> TRUE]
       /\ IF m.err # NoError THEN pc' = "raised" /\ error' = m.err
          ELSE pc' = "merged" /\ UNCHANGED error
    /\ schema' = [schema EXCEPT !.allOf = constraint_merge_input(@).input]
    /\ UNCHANGED <<calls, failed_before, resolved, earlier, api, all_definitions, idx, namespace,
                   dynamic_type_counter, combined_model_counter, model, val, outcome, js>>

\* resolve_ref_path called on the reference string of the fragment
ResolveRefPath ==
    /\ pc = "called"
    /\ api = "resolve_ref_path"
    /\ resolved' = resolve_ref_path(schema["$ref"])
    /\ pc' = "resolved"
    /\ UNCHANGED <<calls, failed_before, earlier, api, schema, all_definitions, idx, namespace,
                   dynamic_type_counter, combined_model_counter, model, error, merged, val,
                   outcome, js>>

\* documents compiled after another compilation: one that refers to a
\* definition only an earlier document has, one with anonymous objects, one
\* with a definition of its own, one that is an allOf of objects
LaterInputs ==
    {[type |-> "object", properties |-> [p |-> RefTo(AName)], required |-> <<"p">>],
     [type |-> "object", properties |-> [a |-> S_x_str]],
     ("$defs" :> <<Entry(BName, S_x_str)>>)
         @@ [type |-> "object", properties |-> [b |-> RefTo(BName)]],
     [allOf |-> <<S_x_str>>]}

\* a variant in which the namespace and the counters outlive the call
NextCall_keeping_state ==
    /\ pc \in {"returned", "raised"}
    /\ api \in {"create_type_adapter", "transform"}
    /\ Len(earlier) < MaxCompilations - 1
    /\ earlier' = Append(earlier, DOMAIN namespace)
    /\ api' \in {"create_type_adapter", "transform"}
    /\ schema' \in LaterInputs
    /\ pc' = "called"
    /\ all_definitions' = <<>>
    /\ idx' = 1
    /\ model' = NoType
    /\ error' = NoError
    /\ val' = NoCall
    /\ outcome' = NoOutcome
    /\ js' = NoJson
    /\ calls' = 0
    /\ failed_before' = FALSE
    /\ UNCHANGED <<namespace, dynamic_type_counter, combined_model_counter, merged, resolved>>

\* one more top-level call after the last one returned or raised: the counters
\* and the namespace are locals of the call, made anew when it starts; the
\* variables of the adapter now follow the new call
NextCall ==
    /\ pc \in {"returned", "raised"}
    /\ api \in {"create_type_adapter", "transform"}
    /\ Len(earlier) < MaxCompilations - 1
    /\ earlier' = Append(earlier, DOMAIN namespace)
    /\ api' \in {"create_type_adapter", "transform"}
    /\ schema' \in LaterInputs
    /\ pc' = "called"
    /\ dynamic_type_counter' = 0
    /\ combined_model_counter' = 0
    /\ namespace' = EmptyDict
    /\ all_definitions' = <<>>
    /\ idx' = 1
    /\ model' = NoType
    /\ error' = NoError
    /\ val' = NoCall
    /\ outcome' = NoOutcome
    /\ js' = NoJson
    /\ calls' = 0
    /\ failed_before' = FALSE
    /\ UNCHANGED <<merged, resolved>>

Next ==
    \/ CollectDefinitions
    \/ CompileDefinition
    \/ CompileRoot
    \/ BindAdapter
    \/ BindModel
    \/ ValidatePython
    \/ JsonSchema
    \/ MergeAllOf
    \/ MergeConstraintSchemas
    \/ ResolveRefPath
    \/ NextCall

Spec == Init /\ [][Next]_vars

-----------------------------------------------------------------------------
(* Vocabulary of the properties below *)

Validated == pc = "returned" /\ ~Has(val, "nocall")
JsonCalled == pc = "returned" /\ ~Has(js, "unset")
Accepted == outcome.r = "ok"
AcceptedUnchanged == outcome.r = "ok" /\ outcome.out = val

\* what a branch fragment compiled on its own by create_type_adapter does with v
BranchAccepts(sub, v) ==
    LET c == cta_convert_type(sub, 0) IN
    /\ ~IsErr(c.ty)
    /\ Build(c.ty, namespace, {})
    /\ Validate(c.ty, v, namespace, FALSE).r = "ok"

RECURSIVE RefsOf(_)
\* every $ref string written anywhere in a fragment
RefsOf(frag) ==
    (IF Has(frag, "$ref") THEN {frag["$ref"]} ELSE {})
    \cup UNION {UNION {RefsOf(frag[key][i]) : i \in DOMAIN frag[key]} :
                   key \in {"allOf", "anyOf", "oneOf"} \cap DOMAIN frag}
    \cup UNION {UNION {RefsOf(frag[key][i].def) : i \in DOMAIN frag[key]} :
                   key \in {"$defs", "definitions"} \cap DOMAIN frag}
    \cup UNION {RefsOf(frag[key]) : key \in {"not", "items"} \cap DOMAIN frag}
    \cup (IF Has(frag, "properties")
          THEN UNION {RefsOf(frag.properties[f]) : f \in DOMAIN frag.properties}
          ELSE {})

ContainsRef(frag) == RefsOf(frag) # {}

-----------------------------------------------------------------------------
(* allOf under create_type_adapter *)

IsIntersection == api = "create_type_adapter" /\ model.t = "intersection"

\* the branches of the root allOf that accept v, each compiled branch taken alone
AcceptingBranches(v) ==
    {i \in DOMAIN model.converted_types :
        /\ Build(model.converted_types[i], namespace, {})
        /\ Validate(model.converted_types[i], v, namespace, FALSE).r = "ok"}

\* C2: a value validated against an allOf compiled by create_type_adapter is
\* accepted exactly when every compiled branch accepts it on its own, and an
\* accepted value is returned as it was given, not as any branch parsed it
C2_AllOfAcceptsIffEveryBranch ==
    (IsIntersection /\ Validated) =>
        /\ Accepted <=> AcceptingBranches(val) = DOMAIN model.converted_types
        /\ Accepted => outcome.out = val

\* an object accepted by both object branches comes back as the dict given
C2_Witness ==
    /\ IsIntersection /\ Validated
    /\ schema = [allOf |-> <<S_a_req, S_b_req>>]
    /\ val = ObjV([a |-> StrV("hello"), b |-> StrV("hello")])
    /\ AcceptedUnchanged

\* two branches declare different types, or give one property different types
ConflictingBranches(bs) ==
    \E i, j \in DOMAIN bs :
        \/ /\ Has(bs[i], "type") /\ Has(bs[j], "type") /\ bs[i].type # bs[j].type
        \/ /\ Has(bs[i], "properties") /\ Has(bs[j], "properties")
           /\ \E f \in DOMAIN bs[i].properties \cap DOMAIN bs[j].properties :
                 /\ Has(bs[i].properties[f], "type") /\ Has(bs[j].properties[f], "type")
                 /\ bs[i].properties[f].type # bs[j].properties[f].type

ConflictingAllOf == Has(schema, "allOf") /\ ConflictingBranches(schema.allOf)

\* C3: create_type_adapter never fails to compile an allOf whose branches
\* conflict (different branch types, or one property with different types);
\* the adapter it returns rejects every value that satisfies exactly one branch
C3_ConflictingAllOfCompiles ==
    (api = "create_type_adapter" /\ ConflictingAllOf) =>
        /\ pc # "raised"
        /\ (Validated /\ Cardinality(AcceptingBranches(val)) = 1) => outcome.r = "invalid"

\* {x: 42} satisfies the integer branch only and is rejected
C3_Witness ==
    /\ api = "create_type_adapter" /\ Validated
    /\ schema = [allOf |-> <<S_x_str, S_x_int>>]
    /\ val = ObjV([x |-> IntV(42)])
    /\ AcceptingBranches(val) = {2}
    /\ outcome.r = "invalid"

-----------------------------------------------------------------------------
(* allOf under the merging entry points *)

MergePath == api \in {"transform", "TransformConverter"}

\* the allOf branch list the merging entry point meets: at the root, or under
\* the property p of an object root
MergeBranches ==
    IF Has(schema, "allOf") THEN schema.allOf
    ELSE IF /\ Has(schema, "properties") /\ Has(schema.properties, "p")
            /\ Has(schema.properties.p, "allOf")
         THEN schema.properties.p.allOf
    ELSE <<>>

\* the types the branches declare for property f
DeclaredFor(bs, f) ==
    {bs[i].properties[f].type :
        i \in {i \in DOMAIN bs : /\ Has(bs[i], "properties") /\ Has(bs[i].properties, f)
                                 /\ Has(bs[i].properties[f], "type")}}

\* (a) one property name, two different types
PropertyConflict(bs) ==
    \E f \in UNION {DOMAIN bs[i].properties : i \in {i \in DOMAIN bs : Has(bs[i], "properties")}} :
        Cardinality(DeclaredFor(bs, f)) > 1

\* the branches are merged as objects: one has properties, or all are object-like
ObjectMerge(bs) ==
    \/ \E i \in DOMAIN bs : Has(bs[i], "properties")
    \/ \A i \in DOMAIN bs : \/ Has(bs[i], "type") /\ bs[i].type = "object"
                            \/ Has(bs[i], "additionalProperties")

\* (b) two branch types differ, or an object merge meets a non-object type
BranchTypeConflict(bs) ==
    \/ \E i, j \in DOMAIN bs :
          Has(bs[i], "type") /\ Has(bs[j], "type") /\ bs[i].type # bs[j].type
    \/ ObjectMerge(bs) /\ \E i \in DOMAIN bs : Has(bs[i], "type") /\ bs[i].type # "object"

-----------------------------------------------------------------------------
(* Definitions, the namespace and the binding of forward references *)

\* the names of the collected definitions
CollectedNames == {all_definitions[i].name : i \in DOMAIN all_definitions}

\* a $ref names a collected definition by its last path segment
TargetsCollected(ref) ==
    LET parts == split(ref, "/") IN parts[Len(parts)] \in CollectedNames

ref_key(ref) == IF api = "transform" THEN transform_ref_key(ref) ELSE cta_ref_key(ref)

SelfReferencing ==
    /\ Has(schema, "$defs")
    /\ schema["$defs"] = <<Entry(NodeName, NodeDef)>>
    /\ Has(schema, "$ref")

\* C5: forward references are bound (pc "root" is where the binding step
\* runs) only once every collected definition is compiled into the namespace
\* and the root is compiled; so a $ref to a collected definition is a key of
\* the namespace at binding whatever the order of the definitions, a document whose
\* every $ref names a collected definition never fails with an unresolved name,
\* and the Node document accepts {next: null} and {next: {next: null}}
C5_BindAfterAllDefinitions ==
    /\ pc \in {"root", "returned"} =>
          /\ idx > Len(all_definitions)
          /\ model # NoType
          /\ \A i \in DOMAIN all_definitions :
                namespace_key(all_definitions[i].name) \in DOMAIN namespace
          /\ \A ref \in RefsOf(schema) :
                TargetsCollected(ref) => ref_key(ref) \in DOMAIN namespace
    /\ (pc = "raised" /\ \A ref \in RefsOf(schema) : TargetsCollected(ref))
          => error.kind # "PydanticUndefinedAnnotation"
    /\ (Validated /\ api = "create_type_adapter" /\ SelfReferencing
          /\ val \in {ObjV([next |-> NoneV]), ObjV([next |-> ObjV([next |-> NoneV])])})
          => Accepted

\* the self-referencing Node document has accepted {next: {next: null}}
C5_Witness ==
    /\ Validated /\ api = "create_type_adapter" /\ SelfReferencing
    /\ val = ObjV([next |-> ObjV([next |-> NoneV])])
    /\ Accepted

-----------------------------------------------------------------------------
(* The empty allOf *)

EmptyAllOf == [allOf |-> <<>>]
EmptyAllOfProperty == [type |-> "object", properties |-> [p |-> EmptyAllOf]]

\* C6: {allOf: []} degenerates to Any on every path: the adapter of
\* create_type_adapter accepts every value unchanged, a property declared
\* {allOf: []} under transform takes every value, and TransformConverter merges
\* {allOf: []} into the empty fragment {}
C6_EmptyAllOfIsAny ==
    /\ (api = "create_type_adapter" /\ schema = EmptyAllOf) =>
          pc # "raised" /\ (Validated => AcceptedUnchanged)
    /\ (api = "transform" /\ schema = EmptyAllOfProperty) =>
          /\ pc # "raised"
          /\ (Validated /\ val = ObjV([p |-> IntV(42)])) => Accepted
    /\ (api = "TransformConverter" /\ schema = EmptyAllOf /\ merged.done) =>
          merged.err = NoError /\ merged.schema = EmptyDict

-----------------------------------------------------------------------------
(* not *)

IsNot == api = "create_type_adapter" /\ model.t = "not"

\* the inner check of validate_not, taken on its own
InnerCheck(v) ==
    IF ~Build(model.converted_type, namespace, {}) THEN Raised
    ELSE Validate(model.converted_type, v, namespace, FALSE)

\* C7: {not: S} accepts a value unchanged exactly when compiled S rejects it
\* with a validation failure and rejects it when S accepts it; an inner error
\* that is no validation failure (a validator that cannot be built) reaches the
\* caller and is never taken for "S did not match"
C7_NotPropagatesInnerErrors ==
    (IsNot /\ Validated) =>
        /\ InnerCheck(val).r = "ok" => outcome.r = "invalid"
        /\ (InnerCheck(val).r = "invalid" /\ InnerCheck(val).why = "validation")
              => AcceptedUnchanged
        /\ (InnerCheck(val).r = "error" \/ InnerCheck(val).why = "build")
              => outcome.r = "error"

-----------------------------------------------------------------------------
(* const *)

IsConst == api = "create_type_adapter" /\ model.t = "const"

\* equality of two JSON values: the same kind and the same content, an
\* integer and a float being one kind (number)
JsonEqual(a, b) ==
    IF K(a) \in {"int", "float"} /\ K(b) \in {"int", "float"} THEN Twice(a) = Twice(b)
    ELSE K(a) = K(b) /\ V(a) = V(b)

\* C8: {const: c} accepts a value exactly when it equals c by value and
\* returns it unchanged; every other value, one of a different kind included,
\* is rejected with a validation failure
C8_ConstAcceptsOnlyEqual ==
    (IsConst /\ Validated) =>
        /\ Accepted <=> JsonEqual(val, model.const_value)
        /\ Accepted => outcome.out = val
        /\ ~Accepted => outcome.r = "invalid"

-----------------------------------------------------------------------------
(* anyOf / oneOf *)

\* the root is compiled by the anyOf / oneOf rule
UnionRoot ==
    /\ api = "create_type_adapter"
    /\ Has(schema, "anyOf") \/ Has(schema, "oneOf")
    /\ ~Has(schema, "$ref") /\ ~Has(schema, "allOf")
UnionSubs == IF Has(schema, "anyOf") THEN schema.anyOf ELSE schema.oneOf

\* C9: anyOf and oneOf of create_type_adapter both compile to the union of the
\* branches compiled one by one: a value is accepted exactly when some branch
\* accepts it, oneOf included when two or more branches accept it
C9_AnyOfOneOfAreUnions ==
    UnionRoot =>
        /\ (cta_convert_all(UnionSubs, 0).err = NoError /\ ~ContainsRef(schema))
              => pc # "raised"
        /\ pc \in {"root", "returned"} => model = UnionT(cta_convert_all(UnionSubs, 0).tys)
        /\ Validated => (Accepted <=> \E i \in DOMAIN UnionSubs : BranchAccepts(UnionSubs[i], val))

\* "42" satisfies both branches of oneOf [string, integer] and is accepted
C9_Witness ==
    /\ Validated /\ api = "create_type_adapter"
    /\ schema = [oneOf |-> <<S_str, S_int>>]
    /\ val = StrV("42")
    /\ BranchAccepts(S_str, val) /\ BranchAccepts(S_int, val)
    /\ Accepted

-----------------------------------------------------------------------------
(* json_schema() of an allOf *)

\* C10: json_schema() of create_type_adapter({allOf: branches}) is {allOf: branches},
\* the branch list as written, whenever no branch contains a $ref; anything
\* else is returned only when some branch contains a $ref
C10_AllOfJsonSchemaVerbatim ==
    (IsIntersection /\ JsonCalled) =>
        /\ (\A i \in DOMAIN schema.allOf : ~ContainsRef(schema.allOf[i]))
              => js = [allOf |-> schema.allOf]
        /\ js # [allOf |-> schema.allOf]
              => \E i \in DOMAIN schema.allOf : ContainsRef(schema.allOf[i])

\* two object branches without $ref come back as written
C10_Witness ==
    /\ IsIntersection /\ JsonCalled
    /\ schema = [allOf |-> <<S_a_req, S_b_req>>]
    /\ js = schema

-----------------------------------------------------------------------------
(* Round trip of the plain constructs *)

PrimitiveTypeNames == {"string", "integer", "number", "boolean", "null"}

RECURSIVE CanonicalValueSchema(_)
\* {} , a bare primitive, or an array whose items are written out and are such
\* a fragment again: what the host library writes for an unnamed type
CanonicalValueSchema(s) ==
    \/ DOMAIN s = {}
    \/ DOMAIN s = {"type"} /\ s.type \in PrimitiveTypeNames
    \/ /\ DOMAIN s = {"type", "items"} /\ s.type = "array"
       /\ ~IsListItems(s.items) /\ CanonicalValueSchema(s.items)

\* a property as the host library writes a field: a title, a canonical value
\* schema, optionally a description and a default
CanonicalProperty(property) ==
    /\ Has(property, "title") /\ Has(property, "type")
    /\ DOMAIN property \subseteq {"type", "items", "title", "description", "default"}
    /\ CanonicalValueSchema([key \in DOMAIN property \cap {"type", "items"} |-> property[key]])

\* an object as the host library writes a model: titled, every property
\* canonical, `required` the properties without default in property order
CanonicalObject(s) ==
    /\ {"type", "title", "properties"} \subseteq DOMAIN s
    /\ DOMAIN s \subseteq {"type", "title", "description", "properties", "required"}
    /\ s.type = "object" /\ TruthyStr(s.title)
    /\ \A f \in DOMAIN s.properties : CanonicalProperty(s.properties[f])
    /\ LET no_default == SeqOfSet({f \in DOMAIN s.properties :
                                      ~Has(s.properties[f], "default")}, PropOrder)
       IN IF no_default = <<>> THEN ~Has(s, "required") ELSE Get(s, "required", <<>>) = no_default

\* an enum as the host library writes an Enum class: typed and titled
CanonicalEnum(s) ==
    /\ DOMAIN s = {"type", "title", "enum"}
    /\ s.type \in {"string", "integer", "number"} /\ s.enum # <<>>

Canonical(s) == CanonicalValueSchema(s) \/ CanonicalObject(s) \/ CanonicalEnum(s)

-----------------------------------------------------------------------------
(* transform and roots that are no object model *)

\* the text of the @deprecated decorator of transform
deprecated_message ==
    "Use create_type_adapter instead. Json schemas are better represented as type adapters as BaseModels can only represent 'objects'."

\* the messages of the package that name create_type_adapter
NamesCreateTypeAdapter(msg) == msg = deprecated_message

\* transform compiled its root to something that is no BaseModel subclass
NonObjectRoot == api = "transform" /\ model # NoType /\ model.t # "model"

\* C11: transform returns a model only when the compiled root is an object
\* model; for every other root ({}, an unknown type, a primitive, an array, a
\* union) it raises and returns nothing, and the error raised tells the caller
\* to use create_type_adapter instead
C11_NonObjectRootErrorNamesCompiler ==
    /\ (api = "transform" /\ pc = "returned") => model.t = "model"
    /\ NonObjectRoot => pc \in {"root", "raised"}
    /\ (NonObjectRoot /\ pc = "raised") =>
          /\ error.kind = "ValueError"
          /\ NamesCreateTypeAdapter(error.msg)

-----------------------------------------------------------------------------
(* References to definitions the document does not have *)

\* the keys the namespace of create_type_adapter holds once every definition
\* of the document is compiled
NamespaceKeys ==
    LET defs == cta_collect_definitions(schema, <<>>) IN
    {namespace_key(defs[i].name) : i \in DOMAIN defs}

\* some $ref of the document resolves to a key the namespace will not hold
DanglingRef == \E ref \in RefsOf(schema) : cta_ref_key(ref) \notin NamespaceKeys

\* C12: when a $ref anywhere in the document (a property, an array item, a
\* union branch, an allOf branch, a `not` sub-schema) resolves to a key absent
\* from the namespace, create_type_adapter fails at the binding step with an
\* unresolved-reference error and returns no validator
C12_DanglingRefFailsAtBind ==
    (api = "create_type_adapter" /\ DanglingRef) =>
        /\ pc # "returned"
        /\ pc = "raised" => error.kind = "PydanticUndefinedAnnotation"

-----------------------------------------------------------------------------
(* Fragments no dispatch rule of create_type_adapter matches *)

BareConstraintKeywords ==
    {"minimum", "maximum", "exclusiveMinimum", "exclusiveMaximum", "multipleOf",
     "minLength", "maxLength", "pattern", "minItems", "maxItems", "uniqueItems",
     "minProperties", "maxProperties", "properties", "required",
     "additionalProperties", "patternProperties", "propertyNames"}

\* the keywords of the rules $ref, allOf, anyOf / oneOf, not, const, enum, type
\* and bare constraints
RuleKeywords ==
    {"$ref", "allOf", "anyOf", "oneOf", "not", "const", "enum", "type"}
    \cup BareConstraintKeywords

\* a fragment that is not empty and carries none of the keywords
MatchesNoRule(frag, keywords) == DOMAIN frag # {} /\ DOMAIN frag \cap keywords = {}

RECURSIVE VisitsStray(_, _)
\* convert_type, called on frag, comes to a fragment (frag itself, a branch, an
\* item or a property) that carries none of the keywords
VisitsStray(frag, keywords) ==
    \/ MatchesNoRule(frag, keywords)
    \/ IF Has(frag, "$ref") THEN FALSE
       ELSE IF Has(frag, "allOf")
            THEN \E i \in DOMAIN frag.allOf : VisitsStray(frag.allOf[i], keywords)
       ELSE IF Has(frag, "anyOf")
            THEN \E i \in DOMAIN frag.anyOf : VisitsStray(frag.anyOf[i], keywords)
       ELSE IF Has(frag, "oneOf")
            THEN \E i \in DOMAIN frag.oneOf : VisitsStray(frag.oneOf[i], keywords)
       ELSE IF Has(frag, "not") THEN VisitsStray(frag["not"], keywords)
       ELSE IF Has(frag, "const") \/ Has(frag, "enum") \/ ~Has(frag, "type") THEN FALSE
       ELSE IF frag.type = "array"
            THEN IF Has(frag, "prefixItems") /\ frag.prefixItems # <<>>
                 THEN \E i \in DOMAIN frag.prefixItems :
                         VisitsStray(frag.prefixItems[i], keywords)
                 ELSE IF IsListItems(Get(frag, "items", EmptyDict))
                 THEN \E i \in DOMAIN frag.items.tuple_items :
                         VisitsStray(frag.items.tuple_items[i], keywords)
                 ELSE VisitsStray(Get(frag, "items", EmptyDict), keywords)
       ELSE IF frag.type = "object" /\ Has(frag, "properties")
            THEN \E f \in DOMAIN frag.properties : VisitsStray(frag.properties[f], keywords)
       ELSE FALSE

\* the root or some collected definition leads convert_type to such a fragment
CompilerVisitsStray(keywords) ==
    \/ VisitsStray(schema, keywords)
    \/ LET defs == cta_collect_definitions(schema, <<>>) IN
       \E i \in DOMAIN defs : IsDict(defs[i].def) /\ VisitsStray(defs[i].def, keywords)

UnsupportedSchema == ErrT("ValueError", "Unsupported schema")

\* create_type_adapter stopped with the unsupported-schema error, or has not
\* come to the stray fragment yet; no root type, no validator
NoValidatorButUnsupported ==
    /\ pc \in {"called", "definitions", "raised"}
    /\ model = NoType
    /\ pc = "raised" => error = UnsupportedSchema

\* C13 as stated: when a fragment the compiler visits (root, property, item,
\* composition branch, or a collected definition, referenced or not) matches
\* none of the rules $ref, allOf, anyOf / oneOf, not, const, enum, type, empty
\* fragment, bare constraints, create_type_adapter raises the unsupported-schema
\* error and returns no validator
C13_StrayFragmentRaises ==
    (api = "create_type_adapter" /\ CompilerVisitsStray(RuleKeywords)) =>
        NoValidatorButUnsupported

\* C13, amended: the same for fragments that match none of the rules and do not
\* carry `if` either (a fragment with `if` and no `type` compiles to Any)
C13_StrayFragmentWithoutIfRaises ==
    (api = "create_type_adapter" /\ CompilerVisitsStray(RuleKeywords \cup {"if"})) =>
        NoValidatorButUnsupported

\* a definition nobody refers to carries an unknown keyword: the call raised
C13_Witness ==
    /\ api = "create_type_adapter"
    /\ schema = ("$defs" :> <<Entry(BName, S_unknown)>>) @@ S_x_str
    /\ pc = "raised" /\ error = UnsupportedSchema /\ model = NoType

-----------------------------------------------------------------------------
(* Required, defaulted and optional properties *)

\* the root is an object fragment with `properties`, compiled to a model that was
\* returned and then called with a dict
ObjectRootValidated ==
    /\ api \in {"create_type_adapter", "transform"}
    /\ Validated /\ K(val) = "obj"
    /\ model.t = "model"
    /\ Has(schema, "type") /\ schema.type = "object" /\ Has(schema, "properties")
    /\ DOMAIN model.fields = DOMAIN schema.properties

ListedRequired(p) == SeqContains(Get(schema, "required", <<>>), p)
Given(p) == Has(V(val), p)

\* what the model does with val when p is its only field
FieldOutcome(p) ==
    Validate([model EXCEPT !.fields = [q \in {p} |-> model.fields[p]]], val, namespace, FALSE)

\* the value field p has in the instance returned
FieldValue(result, p) == V(result.out).fields[p]

\* C14: a property with `default` may be left out and then has that default,
\* listed in `required` or not; otherwise a property listed in `required` must
\* be given; otherwise the property may be left out or given as null and is
\* null then.  The value as a whole is accepted exactly when every property is.
\* create_type_adapter and transform agree on this.
C14_DefaultThenRequiredThenOptional ==
    ObjectRootValidated =>
        /\ Accepted <=> \A p \in DOMAIN schema.properties : FieldOutcome(p).r = "ok"
        /\ \A p \in DOMAIN schema.properties :
              LET property == schema.properties[p] IN
              IF Has(property, "default")
              THEN ~Given(p) =>
                      /\ FieldOutcome(p).r = "ok"
                      /\ FieldValue(FieldOutcome(p), p) = property.default
                      /\ Accepted => FieldValue(outcome, p) = property.default
              ELSE IF ListedRequired(p)
              THEN ~Given(p) => FieldOutcome(p).r = "invalid" /\ outcome.r = "invalid"
              ELSE (~Given(p) \/ V(val)[p] = NoneV) =>
                      /\ FieldOutcome(p).r = "ok"
                      /\ FieldValue(FieldOutcome(p), p) = NoneV
                      /\ Accepted => FieldValue(outcome, p) = NoneV

\* a is required and carries default 0, b is neither: {} is accepted, a is 0 and
\* b is null
C14_Witness ==
    /\ ObjectRootValidated /\ api = "transform"
    /\ schema = [type |-> "object",
                 properties |-> [a |-> [type |-> "integer", title |-> "N",
                                        default |-> IntV(0)],
                                 b |-> S_str],
                 required |-> <<"a">>]
    /\ val = ObjV(EmptyDict)
    /\ Accepted
    /\ FieldValue(outcome, "a") = IntV(0) /\ FieldValue(outcome, "b") = NoneV

-----------------------------------------------------------------------------
(* The object merge of allOf: properties and required *)

\* the property names the branches declare
BranchPropertyNames(bs) ==
    UNION {DOMAIN bs[i].properties : i \in {i \in DOMAIN bs : Has(bs[i], "properties")}}

\* the names the branches list in `required`
BranchRequired(bs) ==
    UNION {Range(bs[i].required) : i \in {i \in DOMAIN bs : Has(bs[i], "required")}}

\* some branch closes the object
BranchForbidsExtra(bs) ==
    \E i \in DOMAIN bs : Has(bs[i], "additionalProperties")
                         /\ bs[i].additionalProperties = BoolV(FALSE)

\* v has every property of every branch, with a value the branch's fragment for
\* that property accepts when compiled on its own
CarriesAll(bs, v) ==
    \A i \in {i \in DOMAIN bs : Has(bs[i], "properties")} :
        \A f \in DOMAIN bs[i].properties :
            /\ Has(V(v), f)
            /\ Validate(transform_convert_type(bs[i].properties[f], [d |-> 0, c |-> 0]).ty,
                        V(v)[f], namespace, FALSE).r = "ok"

\* TransformConverter merged the branches of the root allOf as objects
MergedAsObject ==
    /\ api = "TransformConverter" /\ pc = "merged"
    /\ is_allof_object_schemas(schema.allOf)

\* transform compiled a root allOf through its object merge and returned
TransformMergedObject ==
    /\ api = "transform" /\ pc = "returned"
    /\ Has(schema, "allOf") /\ ~Has(schema, "type") /\ ~Has(schema, "$ref")
    /\ ObjectMerge(schema.allOf)

-----------------------------------------------------------------------------
(* The object merge of allOf: additionalProperties *)

\* the branches that declare additionalProperties
Declaring(bs) == {i \in DOMAIN bs : Has(bs[i], "additionalProperties")}

\* what the merged fragment is to carry: <<>> for no key, else <<value>>
ExpectedAdditional(bs) ==
    IF BranchForbidsExtra(bs) THEN <<BoolV(FALSE)>>
    ELSE IF Declaring(bs) # {}
         THEN <<bs[CHOOSE i \in Declaring(bs) : \A j \in Declaring(bs) : i <= j]
                    .additionalProperties>>
    ELSE <<>>

\* the keys of val that are no field of the model
ExtraKeys == [f \in (DOMAIN V(val)) \ (DOMAIN model.fields) |-> V(val)[f]]

\* C16: the merged additionalProperties is false when any branch declares
\* false, wherever it stands; otherwise it is what the first declaring branch
\* declares; otherwise the key is absent.  The model transform compiles from a
\* merged fragment with false rejects a value with extra keys, and with true it
\* keeps the extra keys
C16_MergedAdditionalProperties ==
    /\ MergedAsObject =>
          /\ Has(merged.schema, "additionalProperties")
                <=> ExpectedAdditional(schema.allOf) # <<>>
          /\ Has(merged.schema, "additionalProperties") =>
                merged.schema.additionalProperties = ExpectedAdditional(schema.allOf)[1]
    /\ (TransformMergedObject /\ Validated /\ K(val) = "obj") =>
          /\ (/\ ExpectedAdditional(schema.allOf) = <<BoolV(FALSE)>>
              /\ DOMAIN ExtraKeys # {}) => outcome.r = "invalid"
          /\ (ExpectedAdditional(schema.allOf) = <<BoolV(TRUE)>> /\ Accepted) =>
                V(outcome.out).extra = ExtraKeys

\* the first branch opens the object and the second closes it: the merged model
\* rejects {a, b} for its extra key b
C16_Witness ==
    /\ TransformMergedObject /\ Validated
    /\ schema = [allOf |-> <<S_a_open, S_closed>>]
    /\ model.extra = "forbid"
    /\ val = ObjV([a |-> StrV("hello"), b |-> StrV("hello")])
    /\ outcome.r = "invalid"

-----------------------------------------------------------------------------
(* validate leaves the compiled state alone *)

\* a step that is a validate call on the returned validator
ValidateStep == pc = "returned" /\ calls' = calls + 1 /\ val' # NoCall

-----------------------------------------------------------------------------
(* The order of the dispatch rules of create_type_adapter *)

\* the fragment cut down to some of its keywords
Restrict(frag, keywords) == [k \in DOMAIN frag \cap keywords |-> frag[k]]

\* the keywords the `type` rule reads
TypeRuleKeywords ==
    {"type", "enum", "title", "description", "items", "prefixItems", "properties",
     "required"} \cup BareConstraintKeywords

\* what a fragment compiles to when the first rule that matches, in the order
\* $ref, allOf, anyOf, oneOf, not, const, enum without type, (`if` without type
\* when with_if,) type, empty fragment, bare constraints, unsupported, decides
\* alone: the result of that rule on the keywords it reads.  Where anyOf and
\* oneOf meet, anyOf is taken.
FirstRuleResult(frag, with_if) ==
    LET Alone(keywords) == cta_convert_type(Restrict(frag, keywords), 0).ty IN
    IF Has(frag, "$ref") THEN Alone({"$ref"})
    ELSE IF Has(frag, "allOf") THEN Alone({"allOf"})
    ELSE IF Has(frag, "anyOf") THEN Alone({"anyOf"})
    ELSE IF Has(frag, "oneOf") THEN Alone({"oneOf"})
    ELSE IF Has(frag, "not") THEN Alone({"not"})
    ELSE IF Has(frag, "const") THEN Alone({"const"})
    ELSE IF Has(frag, "enum") /\ ~Has(frag, "type") THEN Alone({"enum", "title"})
    ELSE IF with_if /\ Has(frag, "if") /\ ~Has(frag, "type") THEN AnyT
    ELSE IF Has(frag, "type") THEN Alone(TypeRuleKeywords)
    ELSE IF DOMAIN frag \ {"$defs", "definitions"} = {} THEN AnyT
    ELSE IF DOMAIN frag \cap BareConstraintKeywords # {} THEN Alone(BareConstraintKeywords)
    ELSE UnsupportedSchema

\* create_type_adapter has compiled the root (or failed to), and no anonymous
\* class was numbered on the way
RootCompiled ==
    /\ api = "create_type_adapter"
    /\ pc \in {"root", "returned", "raised"}
    /\ idx > Len(all_definitions)
    /\ dynamic_type_counter = 0

\* the root came out as `expected`: that type, or that exception
RootIs(expected) ==
    IF IsErr(expected) THEN pc = "raised" /\ error = expected
    ELSE IF pc = "raised" THEN error.kind = "PydanticUndefinedAnnotation"
    ELSE model = expected

\* C18 as stated: the first matching rule in the order $ref, allOf, anyOf /
\* oneOf, not, const, enum without type, type, empty fragment, bare constraints,
\* unsupported decides the result alone, and no keyword outside this list
\* changes which rule is chosen
C18_FirstListedRuleDecides ==
    RootCompiled => RootIs(FirstRuleResult(schema, FALSE))

\* C18, amended: the same with the rule "`if` without `type` compiles to Any"
\* standing between enum without type and type
C18_FirstRuleDecidesWithIf ==
    RootCompiled => RootIs(FirstRuleResult(schema, TRUE))

\* $ref together with type: the root is the forward reference and nothing else
C18_Witness ==
    /\ RootCompiled /\ pc = "returned"
    /\ Has(schema, "$ref") /\ Has(schema, "type")
    /\ model = RefT(BName)

-----------------------------------------------------------------------------
(* The object merge of allOf: one property declared by several branches *)

\* the fragments the branches declare for property f, in branch order
DeclarationsOf(bs, f) ==
    LET RECURSIVE Collect(_)
        Collect(i) ==
            IF i > Len(bs) THEN <<>>
            ELSE (IF Has(bs[i], "properties") /\ Has(bs[i].properties, f)
                  THEN <<bs[i].properties[f]>> ELSE <<>>) \o Collect(i + 1)
    IN Collect(1)

\* every keyword of every declaration stands in `into` with the value declared
Represents(into, declarations) ==
    \A i \in DOMAIN declarations : \A k \in DOMAIN declarations[i] :
        Has(into, k) /\ into[k] = declarations[i][k]

\* C19: the object merge of allOf never drops or picks among the declarations of
\* one property: where it does not raise a type conflict, every keyword of every
\* branch's fragment for a property stands in the merged property with the
\* value that branch gave it, and the field transform compiles carries every
\* declared title, description and default
C19_CollidingPropertiesFullyMerged ==
    /\ MergedAsObject =>
          \A f \in BranchPropertyNames(schema.allOf) :
              Represents(merged.schema.properties[f], DeclarationsOf(schema.allOf, f))
    /\ TransformMergedObject =>
          \A f \in BranchPropertyNames(schema.allOf) :
              LET declarations == DeclarationsOf(schema.allOf, f) IN
              Represents(model.fields[f].kw,
                         [i \in DOMAIN declarations |->
                             Restrict(declarations[i], {"title", "description", "default"})])

-----------------------------------------------------------------------------
(* The merge of allOf branches that are no objects *)

\* the branch list went through the constraint merge: the helper called on its
\* own, or TransformConverter on branches that are no object schemas
ConstraintMerged ==
    /\ merged.done
    /\ \/ api = "merge_allof_constraint_schemas"
       \/ api = "TransformConverter" /\ ~is_allof_object_schemas(schema.allOf)

\* two branches declare different types
TypeClash(bs) ==
    \E i, j \in DOMAIN bs : Has(bs[i], "type") /\ Has(bs[j], "type") /\ bs[i].type # bs[j].type

\* every key of every branch, with the value of the first branch that sets it
FirstWins(bs) ==
    [k \in UNION {DOMAIN bs[i] : i \in DOMAIN bs} |->
        bs[CHOOSE i \in DOMAIN bs : Has(bs[i], k) /\ \A j \in 1..(i - 1) : ~Has(bs[j], k)][k]]

\* the allOf list under property p of an object root, merged by transform as
\* constraints
PropertyConstraintMerge ==
    /\ api = "transform"
    /\ Has(schema, "type") /\ schema.type = "object" /\ Has(schema, "properties")
    /\ DOMAIN schema.properties = {"p"} /\ DOMAIN schema.properties.p = {"allOf"}
    /\ ~ObjectMerge(schema.properties.p.allOf)

\* C20: the merge of non-object branches starts from the first branch and folds
\* the others in, in order: a `type` that differs from the type gathered so far
\* raises, a `type` met when none is gathered is adopted, and for every other
\* key the first branch that sets it wins; no branches give {}.  transform's
\* own copy of the merge does the same
C20_ConstraintMergeFirstWins ==
    /\ ConstraintMerged =>
          IF TypeClash(schema.allOf)
          THEN /\ pc = "raised" /\ error.kind = "ValueError"
               /\ error.types[1] # error.types[2]
               /\ \A n \in 1..2 : \E i \in DOMAIN schema.allOf :
                     Has(schema.allOf[i], "type") /\ schema.allOf[i].type = error.types[n]
          ELSE /\ pc = "merged"
               /\ merged.schema = FirstWins(schema.allOf)
               /\ schema.allOf = <<>> => merged.schema = EmptyDict
    /\ (PropertyConstraintMerge /\ pc \in {"returned", "raised"}) =>
          IF TypeClash(schema.properties.p.allOf)
          THEN pc = "raised" /\ Has(error, "types") /\ error.types[1] # error.types[2]
          ELSE /\ pc = "returned"
               /\ model.fields.p.ty =
                     OptionalT(transform_convert_type(FirstWins(schema.properties.p.allOf),
                                                      [d |-> 0, c |-> 0]).ty)

\* minLength 3 of the first branch stands, minLength 5 of the second is not taken
C20_Witness ==
    /\ ConstraintMerged /\ api = "merge_allof_constraint_schemas" /\ pc = "merged"
    /\ schema = [allOf |-> <<[type |-> "string", minLength |-> IntV(3)],
                             [minLength |-> IntV(5)]>>]
    /\ merged.schema = [type |-> "string", minLength |-> IntV(3)]

-----------------------------------------------------------------------------
(* C21: which of the two merges an allOf branch list gets *)

\* the messages of the ValueErrors only the object merge raises
ObjectMergeErrors == {ObjectTypeError("").msg, PropertyTypeError("", "", "").msg}

\* what the caller of TransformConverter.convert holds is a result of the
\* object merge: a fragment of type object with `properties`, or one of its errors
ObjectMergeResult ==
    IF pc = "raised" THEN error.msg \in ObjectMergeErrors
    ELSE /\ Has(merged.schema, "properties") /\ merged.schema.type = "object"
         /\ Has(merged.schema, "title")

\* ... is a result of the constraint merge: the keys of the branches, first
\* setter first, or its error
ConstraintMergeResult ==
    IF pc = "raised" THEN error.msg = ConstraintTypeError("", "").msg
    ELSE merged.schema = FirstWins(schema.allOf)

\* transform was called with an allOf at the root, which its allOf rule takes
TransformRootAllOf ==
    /\ api = "transform"
    /\ Has(schema, "allOf") /\ ~Has(schema, "type") /\ ~Has(schema, "$ref")

\* C21: on the merging entry points an allOf branch list is merged as one
\* object exactly when a branch declares `properties` or every branch is
\* object-shaped (type object, `properties` or `additionalProperties`), and by
\* the constraint merge otherwise; allOf of two {type: object} branches
\* compiles to a model that accepts {}
C21_ObjectMergeIffObjectShaped ==
    /\ (api = "TransformConverter" /\ pc \in {"merged", "raised"}) =>
          IF ObjectMerge(schema.allOf) THEN ObjectMergeResult ELSE ConstraintMergeResult
    /\ (TransformRootAllOf /\ pc = "root") =>
          IF ObjectMerge(schema.allOf)
          THEN /\ model.t = "model"
               /\ model.title = IF Get(schema, "title", "-") = "" THEN DynamicTypeTitle(0)
                                ELSE Get(schema, "title", CombinedModelTitle(0))
          ELSE /\ model.t # "model"
               /\ model = transform_convert_type(FirstWins(schema.allOf),
                                                 [d |-> 0, c |-> 0]).ty
    /\ (TransformRootAllOf /\ pc = "raised" /\ model = NoType) =>
          IF ObjectMerge(schema.allOf) THEN error.msg \in ObjectMergeErrors
          ELSE error.msg = ConstraintTypeError("", "").msg
    /\ (/\ api = "transform" /\ Validated /\ val = ObjV(EmptyDict)
        /\ schema \in {[allOf |-> <<S_obj, S_obj>>]}) => Accepted
    /\ (/\ api = "transform" /\ Validated /\ val = ObjV([p |-> ObjV(EmptyDict)])
        /\ schema \in NestedObjectOnlyAllOf) => Accepted

\* two branches of type object without properties became an empty model, which
\* accepted {}
C21_Witness ==
    /\ api = "transform" /\ Validated /\ Accepted
    /\ schema = [allOf |-> <<S_obj, S_obj>>]
    /\ model.t = "model" /\ DOMAIN model.fields = {}
    /\ val = ObjV(EmptyDict)

-----------------------------------------------------------------------------
(* C22: the key a reference string resolves to *)

\* the reference string the entry point was handed at the root
RootRef == schema["$ref"]

\* the segments of a local reference that are no container keyword
NamedSegments(ref) ==
    SelectSeq(split(SubSeq(ref, 3, Len(ref)), "/"),
              LAMBDA p : p \notin {DefsWord, DefinitionsWord})

\* the final "/"-separated segment
FinalSegment(ref) == split(ref, "/")[Len(split(ref, "/"))]

\* only the first character changed, to upper case
UpperFirst(s) == [i \in DOMAIN s |-> IF i = 1 THEN Upper(s[i]) ELSE s[i]]

\* first character to upper case, every other character to lower case
UpperFirstLowerRest(s) == [i \in DOMAIN s |-> IF i = 1 THEN Upper(s[i]) ELSE Lower(s[i])]

\* the segments the key is made of
KeySegments(ref) ==
    IF startswith(ref, <<"#", "/">>) THEN join(NamedSegments(ref), "_")
    ELSE FinalSegment(ref)

\* the three copies of the resolver gave the key `key` for the reference
ResolvedTo(key) ==
    /\ (api = "resolve_ref_path" /\ pc # "called") =>
          /\ pc = "resolved"
          /\ resolved = key
          /\ cta_ref_key(RootRef) = resolved /\ transform_ref_key(RootRef) = resolved
    /\ (/\ api \in {"create_type_adapter", "transform"} /\ Has(schema, "$ref")
        /\ pc \in {"root", "returned"}) => model = RefT(key)

-----------------------------------------------------------------------------
(* C23: the table collect_definitions returns *)

\* the definitions container of a fragment: "$defs" when present, else
\* "definitions", else none
Container(fragment) ==
    IF Has(fragment, "$defs") THEN fragment["$defs"]
    ELSE IF Has(fragment, "definitions") THEN fragment.definitions
    ELSE <<>>

RECURSIVE ReachableFrom(_, _)
\* the definitions reachable through the containers `entries`, with the names
\* on their paths, in depth-first, entry-then-children order
ReachableFrom(entries, path) ==
    IF entries = <<>> THEN <<>>
    ELSE LET here == Append(path, Head(entries).name)
             definition == Head(entries).def
         IN <<[path |-> here, def |-> definition]>>
            \o (IF IsDict(definition) THEN ReachableFrom(Container(definition), here)
                ELSE <<>>)
            \o ReachableFrom(Tail(entries), path)

\* the table keyed by the "/"-joined names of each path, the entry visited
\* later kept for a key that is produced twice
TableByPath(document) ==
    LET reached == ReachableFrom(Container(document), <<>>)
        key(i) == join(reached[i].path, "/")
    IN [k \in {key(i) : i \in DOMAIN reached} |->
           reached[CHOOSE i \in DOMAIN reached :
                      key(i) = k /\ \A j \in DOMAIN reached : key(j) = k => j <= i].def]

\* what collect_definitions returned, as a mapping
CollectedTable ==
    [k \in {all_definitions[i].name : i \in DOMAIN all_definitions} |->
        all_definitions[CHOOSE i \in DOMAIN all_definitions : all_definitions[i].name = k].def]

\* collect_definitions has returned
Collected == api \in {"create_type_adapter", "transform"} /\ pc # "called"

\* C23: collect_definitions returns one entry for every definition reachable
\* through the definition containers ("$defs" when present, else
\* "definitions"), keyed by the "/"-joined names on its path, a definition that
\* is no mapping recorded and not descended into, the entry visited later kept
\* when a key is produced twice
C23_TableKeyedByJoinedPath ==
    Collected => CollectedTable = TableByPath(schema)

-----------------------------------------------------------------------------
(* C24: the namespace keys of the collected definitions *)

\* the definitions have been compiled: the loop over all_definitions has run out
DefinitionsCompiled ==
    /\ api \in {"create_type_adapter", "transform"}
    /\ pc \in {"definitions", "root", "returned", "raised"}
    /\ DefinitionsDone

\* C24: two definitions collected at distinct paths are stored under distinct
\* namespace keys, so the namespace has an entry for every collected definition
\* and each entry is the compiled type of the definition it was made from
C24_DistinctPathsDistinctKeys ==
    DefinitionsCompiled =>
        /\ \A i, j \in DOMAIN all_definitions :
              all_definitions[i].name # all_definitions[j].name =>
                  namespace_key(all_definitions[i].name) # namespace_key(all_definitions[j].name)
        /\ Cardinality(DOMAIN namespace) = Len(all_definitions)

-----------------------------------------------------------------------------
(* C25: the canonical reference to a collected definition *)

RECURSIVE CanonicalSegments(_, _)
\* container/n1/container/n2/.../container/nk
CanonicalSegments(path, container) ==
    IF path = <<>> THEN <<>>
    ELSE <<container, Head(path)>> \o CanonicalSegments(Tail(path), container)

\* "#/$defs/n1/$defs/n2/.../$defs/nk", or the same with "definitions"
CanonicalRef(path, container) == LocalRef(CanonicalSegments(path, container))

\* the resolver of the entry point in use
ref_key_in_use(ref) ==
    IF api = "transform" THEN transform_ref_key(ref) ELSE cta_ref_key(ref)

\* C25: for every definition the collector records at the nested path
\* n1/.../nk, the canonical reference to it resolves to the namespace key the
\* definition's compiled type is stored under, whatever the names are
C25_CanonicalRefResolvesToKey ==
    DefinitionsCompiled =>
        \A i \in DOMAIN all_definitions : \A container \in {DefsWord, DefinitionsWord} :
            LET ref == CanonicalRef(split(all_definitions[i].name, "/"), container) IN
            /\ ref_key_in_use(ref) = namespace_key(all_definitions[i].name)
            /\ ref_key_in_use(ref) \in DOMAIN namespace


-----------------------------------------------------------------------------
(* enum without type *)

\* the root is compiled by the `enum` without `type` rule and the adapter exists
EnumNoTypeRoot ==
    /\ api = "create_type_adapter"
    /\ pc = "returned"
    /\ Has(schema, "enum") /\ ~Has(schema, "type")
    /\ \A k \in {"$ref", "allOf", "anyOf", "oneOf", "not", "const"} : ~Has(schema, k)

EnumKinds == {K(schema.enum[i]) : i \in DOMAIN schema.enum}
AnyBoolean == "bool" \in EnumKinds
MixedKinds == Cardinality(EnumKinds) > 1
PrimitiveKinds == EnumKinds \subseteq {"str", "int", "float"}

\* two values are the same value: the same kind holding the same content
SameValue(a, b) == K(a) = K(b) /\ V(a) = V(b)

\* the root is a literal set over the listed values, each compared by equality
IsLiteralSet ==
    /\ model = LiteralT(schema.enum)
    /\ Validated =>
          (Accepted <=> \E i \in DOMAIN schema.enum : SameValue(schema.enum[i], val))

\* the root is an enumeration over the common base with the listed members
IsEnumeration ==
    /\ model.t = "enum"
    /\ model.base = (CASE EnumKinds = {"str"} -> StrT
                       [] EnumKinds = {"int"} -> IntT
                       [] OTHER -> FloatT)
    /\ model.values = schema.enum

\* C26 as stated: every homogeneous list without a boolean is an
\* enumeration over string, integer or float
C26_EnumRepresentationAsStated ==
    EnumNoTypeRoot =>
        IF schema.enum = <<>> THEN model = NeverT /\ (Validated => ~Accepted)
        ELSE IF AnyBoolean \/ MixedKinds THEN IsLiteralSet
        ELSE IsEnumeration

\* C26: for `enum` without `type`, an empty list rejects every value; a list
\* with a boolean or with values of more than one kind is a literal set
\* compared by equality; a list of strings, of integers or of floats is an
\* enumeration over that base with the listed members in order; a list of one
\* other kind (null, array, object) is a literal set as well
C26_EnumRepresentation ==
    EnumNoTypeRoot =>
        IF schema.enum = <<>> THEN model = NeverT /\ (Validated => ~Accepted)
        ELSE IF AnyBoolean \/ MixedKinds THEN IsLiteralSet
        ELSE IF PrimitiveKinds THEN IsEnumeration
        ELSE IsLiteralSet

\* the literal set of a list holding only null has accepted null
C26_Witness ==
    /\ EnumNoTypeRoot /\ Validated
    /\ schema.enum = <<NoneV>>
    /\ model = LiteralT(<<NoneV>>)
    /\ val = NoneV /\ Accepted


-----------------------------------------------------------------------------
(* type array *)

\* the root is compiled by the array rule and the adapter exists
ArrayRoot ==
    /\ api = "create_type_adapter"
    /\ pc = "returned"
    /\ Has(schema, "type") /\ schema.type = "array"
    /\ \A k \in {"$ref", "allOf", "anyOf", "oneOf", "not", "const", "enum",
                 "$defs", "definitions"} : ~Has(schema, k)

ArrayItems == Get(schema, "items", EmptyDict)
\* the schemas of the positions: prefixItems when given, else the items list
TuplePositions ==
    IF Has(schema, "prefixItems") THEN schema.prefixItems ELSE ArrayItems.tuple_items

\* the list type under its length bounds
SequenceOf(ty) == IF ty.t = "annotated" THEN ty.base ELSE ty
BoundsOf(ty) == IF ty.t = "annotated" THEN ty.constraints ELSE EmptyDict

HasDuplicates(xs) == \E i, j \in DOMAIN xs : i # j /\ PyEq(xs[i], xs[j])
UniqueRequested == Has(schema, "uniqueItems") /\ schema.uniqueItems = BoolV(TRUE)

\* C27: a list-valued `items` or a present `prefixItems` compiles to a fixed
\* tuple with one compiled type per position, taken from `prefixItems` when
\* both are given; otherwise the array is a sequence over the compiled `items`
\* (Any when absent) with minItems and maxItems as length bounds and
\* uniqueItems as a uniqueness flag
C27_ArrayTupleOrSequence ==
    ArrayRoot =>
        IF IsListItems(ArrayItems) \/ Has(schema, "prefixItems")
        THEN model = TupleT(cta_convert_all(TuplePositions, 0).tys)
        ELSE /\ SequenceOf(model) = ListT(cta_convert_type(ArrayItems, 0).ty)
             /\ Has(schema, "minItems") <=> Has(BoundsOf(model), "min_length")
             /\ Has(schema, "minItems") => BoundsOf(model).min_length = schema.minItems
             /\ Has(schema, "maxItems") <=> Has(BoundsOf(model), "max_length")
             /\ Has(schema, "maxItems") => BoundsOf(model).max_length = schema.maxItems
             /\ UniqueRequested =>
                   /\ Has(BoundsOf(model), "unique_items")
                   /\ (Validated /\ K(val) = "arr" /\ HasDuplicates(V(val))) => ~Accepted


-----------------------------------------------------------------------------
(* the anonymous-name counters *)

RECURSIVE ModelTitles(_), TitlesOfAll(_)
\* the titles of the models of a compiled type, in the order convert_type made
\* them: a model before its fields, fields and branches in order
ModelTitles(ty) ==
    CASE ty.t = "model" ->
            LET names == SeqOfSet(DOMAIN ty.fields, PropOrder) IN
            <<ty.title>> \o TitlesOfAll([i \in 1..Len(names) |-> ty.fields[names[i]].ty])
      [] ty.t \in {"union", "tuple"} -> TitlesOfAll(ty.types)
      [] ty.t = "intersection" -> TitlesOfAll(ty.converted_types)
      [] ty.t = "not" -> ModelTitles(ty.converted_type)
      [] ty.t = "list" -> ModelTitles(ty.item)
      [] ty.t = "annotated" -> ModelTitles(ty.base)
      [] OTHER -> <<>>
TitlesOfAll(tys) ==
    IF tys = <<>> THEN <<>> ELSE ModelTitles(Head(tys)) \o TitlesOfAll(Tail(tys))

\* a compilation has returned and every definition still has its own entry
CompilationDone ==
    /\ api \in {"create_type_adapter", "transform"}
    /\ pc = "returned"
    /\ Cardinality(DOMAIN namespace) = Len(all_definitions)

\* the titles of everything compiled, definitions first, then the root
CompiledTitles ==
    TitlesOfAll([i \in 1..Len(all_definitions) |->
                    namespace[namespace_key(all_definitions[i].name)]] \o <<model>>)

\* the names among them that a counter hands out
DynamicNames ==
    SelectSeq(CompiledTitles,
              LAMBDA t : \E n \in 0..(Len(CompiledTitles) + 1) : t = DynamicTypeTitle(n))
CombinedNames ==
    SelectSeq(CompiledTitles,
              LAMBDA t : \E n \in 0..(Len(CompiledTitles) + 1) : t = CombinedModelTitle(n))

\* the anonymous names are numbered from 0 in the order of the walk, and each
\* counter stands at the number of names it handed out
NamesInWalkOrder ==
    CompilationDone =>
        /\ Len(DynamicNames) = dynamic_type_counter
        /\ \A k \in DOMAIN DynamicNames : DynamicNames[k] = DynamicTypeTitle(k - 1)
        /\ Len(CombinedNames) = combined_model_counter
        /\ \A k \in DOMAIN CombinedNames : CombinedNames[k] = CombinedModelTitle(k - 1)

\* the root is compiled by the object rule / by the allOf object merge
ObjectRuleRoot ==
    /\ CompilationDone
    /\ ~Has(schema, "$ref")
    /\ Has(schema, "type") /\ schema.type = "object" /\ Has(schema, "properties")
    /\ api = "create_type_adapter" =>
          \A k \in {"allOf", "anyOf", "oneOf", "not", "const", "enum"} : ~Has(schema, k)
ObjectMergeRoot ==
    /\ CompilationDone /\ api = "transform"
    /\ ~Has(schema, "$ref") /\ ~Has(schema, "type") /\ Has(schema, "allOf")
    /\ is_allof_object_schemas(schema.allOf)

\* no counter goes down while a compilation runs
CountersOnlyIncrease ==
    [][earlier' = earlier =>
          /\ dynamic_type_counter' >= dynamic_type_counter
          /\ combined_model_counter' >= combined_model_counter]_vars

\* C28 as stated: every explicit title is kept, the empty one included
C28_AnonymousNamesAsStated ==
    /\ NamesInWalkOrder
    /\ (ObjectRuleRoot \/ ObjectMergeRoot) /\ Has(schema, "title") =>
          model.title = schema.title

\* C28: within one compilation the counters only increase; the k-th untitled
\* object fragment with properties reached by the walk is DynamicType_(k-1)
\* and the k-th untitled allOf object merge is CombinedModel_(k-1), so no two
\* anonymous results share a name; a fragment with a non-empty title keeps it
\* and advances no counter, and an empty title counts as no title for the
\* DynamicType counter
C28_AnonymousNames ==
    /\ CountersOnlyIncrease
    /\ [](/\ NamesInWalkOrder
          /\ (ObjectRuleRoot \/ ObjectMergeRoot) /\ Has(schema, "title") =>
                IF schema.title # "" THEN model.title = schema.title
                ELSE model.title \in Range(DynamicNames))

\* an untitled root with an untitled object, a titled object and an untitled
\* object below it has handed out three names and skipped the titled one
C28_Witness ==
    /\ CompilationDone
    /\ dynamic_type_counter = 3
    /\ ModelTitles(model) = <<"DynamicType_0", "DynamicType_1", "Person", "DynamicType_2">>


-----------------------------------------------------------------------------
(* the caller's document *)

\* C29: no step of create_type_adapter, transform, merge_allof_object_schemas
\* (through TransformConverter) or merge_allof_constraint_schemas changes the
\* caller's document: every mapping and list of it, at every depth, is after
\* the step what it was before, whether the call returns or raises
C29_InputUnchanged ==
    [][earlier' = earlier => schema' = schema]_vars

\* transform has merged two branches that both declare x: the title of the
\* later branch is on the merged property, the earlier branch is as it was
C29_Witness ==
    /\ api = "transform" /\ pc = "returned"
    /\ schema = [allOf |-> <<S_x_str, S_x_titled>>]
    /\ model.fields["x"].kw.title = "Item Name"
    /\ schema.allOf[1].properties["x"] = S_str


-----------------------------------------------------------------------------
(* one top-level call after another *)

\* convert_type of the entry point in use on given counters: [ty, d, c]
convert_from(prop, d, c) ==
    IF ~IsDict(prop) THEN [ty |-> convert_non_mapping(prop), d |-> d, c |-> c]
    ELSE IF api = "create_type_adapter"
    THEN LET r == cta_convert_type(prop, d) IN [ty |-> r.ty, d |-> r.ctr, c |-> c]
    ELSE LET r == transform_convert_type(prop, [d |-> d, c |-> c]) IN
         [ty |-> r.ty, d |-> r.ctr.d, c |-> r.ctr.c]

RECURSIVE DefinitionsAlone(_, _, _)
\* the definitions loop run from position i on state st = [ns, d, c, err]
DefinitionsAlone(defs, i, st) ==
    IF i > Len(defs) THEN st
    ELSE LET r == convert_from(defs[i].def, st.d, st.c) IN
         IF IsErr(r.ty) THEN [st EXCEPT !.d = r.d, !.c = r.c, !.err = r.ty]
         ELSE DefinitionsAlone(defs, i + 1,
                  [ns |-> With(st.ns, namespace_key(defs[i].name), r.ty),
                   d |-> r.d, c |-> r.c, err |-> NoError])

\* what the call in progress leaves when it is the only call ever made: the
\* whole entry point run on an empty namespace and on counters at zero
CompiledAlone ==
    LET defs == IF api = "create_type_adapter" THEN cta_collect_definitions(schema, <<>>)
                ELSE transform_collect_definitions(schema, <<>>)
        st == DefinitionsAlone(defs, 1, [ns |-> EmptyDict, d |-> 0, c |-> 0, err |-> NoError])
        r == convert_from(schema, st.d, st.c)
        done(at, ty, err, d, c) ==
            [pc |-> at, model |-> ty, error |-> err, namespace |-> st.ns, d |-> d, c |-> c]
    IN IF st.err # NoError THEN done("raised", NoType, st.err, st.d, st.c)
       ELSE IF IsErr(r.ty) THEN done("raised", NoType, r.ty, r.d, r.c)
       ELSE IF api = "transform" /\ r.ty.t # "model"
            THEN done("raised", r.ty, ErrT("ValueError", "Unable to convert schema."), r.d, r.c)
       ELSE IF ~Build(r.ty, st.ns, {})
            THEN done("raised", r.ty,
                      ErrT("PydanticUndefinedAnnotation", "name not defined"), r.d, r.c)
       ELSE done("returned", r.ty, NoError, r.d, r.c)

\* a call made after another one
LaterCall == earlier # <<>> /\ api \in {"create_type_adapter", "transform"}

\* C30: a top-level call made after others starts on an empty namespace and on
\* counters at zero, and ends as the same call made alone ends: the same
\* namespace, the same compiled root with the same anonymous names, the same
\* exception if it raises, the same verdict on every value; its namespace
\* holds keys of its own definitions only
C30_FreshStatePerCall ==
    LaterCall =>
        /\ pc = "called" =>
              /\ namespace = EmptyDict
              /\ dynamic_type_counter = 0 /\ combined_model_counter = 0
        /\ pc \in {"returned", "raised"} =>
              /\ pc = CompiledAlone.pc
              /\ namespace = CompiledAlone.namespace
              /\ model = CompiledAlone.model
              /\ error = CompiledAlone.error
              /\ dynamic_type_counter = CompiledAlone.d
              /\ combined_model_counter = CompiledAlone.c
              /\ Validated =>
                    outcome = Validate(CompiledAlone.model, val, CompiledAlone.namespace, FALSE)
        /\ DOMAIN namespace \subseteq
              {namespace_key(all_definitions[i].name) : i \in DOMAIN all_definitions}

\* an earlier call defined A; the later document refers to A without defining
\* it and fails to bind
C30_Witness ==
    /\ LaterCall
    /\ <<"A">> \in earlier[1]
    /\ schema = [type |-> "object", properties |-> [p |-> RefTo(AName)],
                 required |-> <<"p">>]
    /\ pc = "raised"
    /\ error = ErrT("PydanticUndefinedAnnotation", "name not defined")
    /\ namespace = EmptyDict

=============================================================================
